---- MODULE Spec2Model ----
(***************************************************************************)
(* Soft-body blob physics of the companion overlay (canvas/physics.ts,     *)
(* held in src/unnamed/part_003) and its driver App (src/unnamed/part_002).*)
(*                                                                         *)
(* Number representation.  The source computes in IEEE doubles; the model  *)
(* computes in fixed point:                                                *)
(*   - lengths and coordinates are integers counting 1/PX of a pixel;      *)
(*   - times (dt, floatTimer) are integers counting milliseconds;          *)
(*   - breathPhase counts milliradians, targetPressure counts thousandths; *)
(*   - a product with a decimal constant c = num/den is RDiv(a * num, den),*)
(*     rounded to the nearest unit; Math.sqrt is the integer square root   *)
(*     rounded to the nearest unit.                                        *)
(* Loops that mutate the node array in place are folds in the same order,  *)
(* so that a later iteration reads what an earlier one wrote.              *)
(***************************************************************************)
EXTENDS Integers, Sequences, FiniteSets, TLC

\* ------------------------------------------------------------------------
\* Numeric helpers (the Math.* functions of the source, in fixed point)
\* ------------------------------------------------------------------------

\* Units per pixel of every coordinate.
PX == 100

Abs(a) == IF a < 0 THEN -a ELSE a

\* F applied to v, with v computed first: the source's statements run one
\* after the other, each on the result the one before it left
\* (const v = ...; then the statements F that read v).
Let(v, F(_)) == CHOOSE r \in {F(x) : x \in {v}} : TRUE

\* Math.min / Math.max
Min2(a, b) == IF a < b THEN a ELSE b
Max2(a, b) == IF a > b THEN a ELSE b

\* n / d rounded to the nearest integer (half away from zero), d > 0.
RDiv(n, d) == IF n >= 0 THEN (n + d \div 2) \div d ELSE -((d \div 2 - n) \div d)

RECURSIVE SqrtIter(_, _)
SqrtIter(n, x) ==
  LET y == (x + n \div x) \div 2
  IN  IF y >= x THEN x ELSE SqrtIter(n, y)

\* floor(sqrt(n)), Newton's iteration from a start above the root.
ISqrt(n) ==
  IF n < 2 THEN n
  ELSE SqrtIter(n, IF n < 10000 THEN 100
                   ELSE IF n < 1000000 THEN 1000
                   ELSE IF n < 100000000 THEN 10000
                   ELSE 46341)

\* Math.sqrt, rounded to the nearest unit.
Sqrt(n) == LET r == ISqrt(n) IN IF n - r * r > r THEN r + 1 ELSE r

\* Math.sqrt(a * a + b * b).  Past LargeLen the operands are scaled down
\* first and the root scaled back, which keeps the squares within range.
LargeLen == 30000
Hypot(a, b) ==
  LET m == Max2(Abs(a), Abs(b))
  IN  IF m <= LargeLen THEN Sqrt(a * a + b * b)
      ELSE LET k == m \div LargeLen + 1
           IN  k * Sqrt((a \div k) * (a \div k) + (b \div k) * (b \div k))

\* a * b / c rounded, for |a * b| too large to form: b and c are scaled
\* down together.
MulDiv(a, b, c) ==
  IF Abs(a) <= 32768 /\ Abs(b) <= 32768 THEN RDiv(a * b, c)
  ELSE LET k == Max2(Abs(a), Abs(b)) \div LargeLen + 1
           a1 == IF Abs(a) >= Abs(b) THEN RDiv(a, k) ELSE a
           b1 == IF Abs(a) >= Abs(b) THEN b ELSE RDiv(b, k)
           c1 == Max2(1, RDiv(c, k))
       IN  IF Abs(a1) <= 32768 /\ Abs(b1) <= 32768 THEN RDiv(a1 * b1, c1)
           ELSE LET k2 == Max2(Abs(a1), Abs(b1)) \div LargeLen + 1
                    a2 == IF Abs(a1) >= Abs(b1) THEN RDiv(a1, k2) ELSE a1
                    b2 == IF Abs(a1) >= Abs(b1) THEN b1 ELSE RDiv(b1, k2)
                IN  RDiv(a2 * b2, Max2(1, RDiv(c1, k2)))

\* cos and sin of 2 * pi * i / NODE_COUNT, in ten-thousandths
\* (Math.cos / Math.sin at the angles createBlobState asks for).
CosTab == <<10000, 9010, 6235, 2225, -2225, -6235, -9010,
            -10000, -9010, -6235, -2225, 2225, 6235, 9010>>
SinTab == <<0, 4339, 7818, 9749, 9749, 7818, 4339,
            0, -4339, -7818, -9749, -9749, -7818, -4339>>

\* Math.sin of an angle in milliradians, in thousandths (Bhaskara's
\* rational approximation on each half period; error below 0.002).
Sin1000(mrad) ==
  LET t == mrad % 6283
      h == IF t > 3142 THEN t - 3142 ELSE t
      p == (h * (3142 - h)) \div 100
      v == RDiv(16000 * p, 493480 - 4 * p)
  IN  IF t > 3142 THEN -v ELSE v

\* ------------------------------------------------------------------------
\* Constants of physics.ts
\* ------------------------------------------------------------------------

NODE_COUNT == 14
DAMPING == 91                 \* 0.91, in hundredths
CONSTRAINT_ITERS == 2
PRESSURE_STRENGTH == 18
DEFAULT_PRESSURE == 1000      \* 1.0, in thousandths
GRAVITY == 120                \* px / s^2
WALK_SPEED == 50              \* px / s
FLOAT_SPEED == 80             \* px / s
FLOAT_DELAY == 5000           \* 5.0 s, in ms
BREATH_SPEED == 25            \* 2.5 rad / s, in tenths
BREATH_AMOUNT == 80           \* 0.08, in thousandths
BOUNCE_DECAY == 3             \* 0.3, in tenths
MAX_VELOCITY == 600           \* px / s
MAX_VELOCITY_FREE == 6000     \* px / s
REST_THRESHOLD == 15          \* 1.5 px^2, in tenths
ADHESION_STRENGTH == 12       \* 0.12, in hundredths
ATTRACT_RANGE == 180          \* px
ATTRACT_STRENGTH == 4         \* 0.4, in tenths
MAX_DT == 50                  \* Math.min(dt, 0.05), in ms
DEFAULT_RADIUS == 28          \* px
SPAWN_MARGIN == 40            \* px above the monitor's bottom edge
MAX_THROW == 120              \* px per frame
ARRIVE_DIST == 8              \* px

Idx == 0 .. NODE_COUNT - 1

Edges == {"top", "bottom", "left", "right"}

Rect(x, y, w, h) == [x |-> x, y |-> y, width |-> w, height |-> h]

\* ------------------------------------------------------------------------
\* Helpers of physics.ts
\* ------------------------------------------------------------------------

nodeDist(a, b) == Hypot(a.x - b.x, a.y - b.y)

\* The three spring families, in the order createBlobState pushes them.
SpringEnds ==
  [k \in 1 .. NODE_COUNT |-> <<k - 1, k % NODE_COUNT>>] \o
  [k \in 1 .. NODE_COUNT |-> <<k - 1, (k + 1) % NODE_COUNT>>] \o
  [k \in 1 .. NODE_COUNT \div 2 |-> <<k - 1, (k - 1 + NODE_COUNT \div 2) % NODE_COUNT>>]

\* Stiffness of spring k, in thousandths: 0.1, 0.03, 0.005.
SpringStiffness(k) ==
  IF k <= NODE_COUNT THEN 100 ELSE IF k <= 2 * NODE_COUNT THEN 30 ELSE 5

\* createBlobState spawning the body on the bottom edge, without the margin.
createBlobState_onFloor(monitor, radius, rnd) ==
  LET cx == monitor.x + monitor.width \div 2
      cy == monitor.y + monitor.height - radius
      nodes == [i \in Idx |->
                 LET nx == cx + RDiv(CosTab[i + 1] * radius, 10000)
                     ny == cy + RDiv(SinTab[i + 1] * radius, 10000)
                 IN  [x |-> nx, y |-> ny, ox |-> nx, oy |-> ny]]
      springs == [k \in 1 .. Len(SpringEnds) |->
                   [a |-> SpringEnds[k][1], b |-> SpringEnds[k][2],
                    restLength |-> nodeDist(nodes[SpringEnds[k][1]],
                                            nodes[SpringEnds[k][2]]),
                    stiffness |-> SpringStiffness(k)]]
  IN  [nodes |-> nodes, springs |-> springs, cx |-> cx, cy |-> cy,
       radius |-> radius, moveState |-> "IDLE",
       dragX |-> 0, dragY |-> 0, prevDragX |-> 0, prevDragY |-> 0,
       grabNodeIdx |-> 0, grabOffsetX |-> 0, grabOffsetY |-> 0,
       walkDir |-> IF rnd THEN 1 ELSE -1,
       walkEdge |-> "top", walkSpeed |-> WALK_SPEED,
       targetX |-> cx, targetY |-> cy, floatTimer |-> 0,
       targetPressure |-> DEFAULT_PRESSURE, breathPhase |-> 0,
       windows |-> <<>>]

createBlobState(monitor, radius, rnd) ==
  LET cx == monitor.x + monitor.width \div 2
      cy == monitor.y + monitor.height - radius - SPAWN_MARGIN * PX
      nodes == [i \in Idx |->
                 LET nx == cx + RDiv(CosTab[i + 1] * radius, 10000)
                     ny == cy + RDiv(SinTab[i + 1] * radius, 10000)
                 IN  [x |-> nx, y |-> ny, ox |-> nx, oy |-> ny]]
      springs == [k \in 1 .. Len(SpringEnds) |->
                   [a |-> SpringEnds[k][1], b |-> SpringEnds[k][2],
                    restLength |-> nodeDist(nodes[SpringEnds[k][1]],
                                            nodes[SpringEnds[k][2]]),
                    stiffness |-> SpringStiffness(k)]]
  IN  [nodes |-> nodes, springs |-> springs, cx |-> cx, cy |-> cy,
       radius |-> radius, moveState |-> "IDLE",
       dragX |-> 0, dragY |-> 0, prevDragX |-> 0, prevDragY |-> 0,
       grabNodeIdx |-> 0, grabOffsetX |-> 0, grabOffsetY |-> 0,
       walkDir |-> IF rnd THEN 1 ELSE -1,
       walkEdge |-> "top", walkSpeed |-> WALK_SPEED,
       targetX |-> cx, targetY |-> cy, floatTimer |-> 0,
       targetPressure |-> DEFAULT_PRESSURE, breathPhase |-> 0,
       windows |-> <<>>]

\* ------------------------------------------------------------------------
\* Node-array helpers
\* ------------------------------------------------------------------------

\* for (const n of state.nodes) { n.x += dx; n.y += dy; }
MoveNodes(nodes, dx, dy) ==
  [i \in Idx |-> [nodes[i] EXCEPT !.x = @ + dx, !.y = @ + dy]]

\* A translation that leaves the previous positions behind.
TranslateNodes_positionsOnly(nodes, dx, dy) ==
  [i \in Idx |-> [nodes[i] EXCEPT !.x = @ + dx, !.y = @ + dy]]

\* for (const n of state.nodes) { n.x += dx; n.y += dy; n.ox += dx; n.oy += dy; }
TranslateNodes(nodes, dx, dy) ==
  [i \in Idx |-> [x |-> nodes[i].x + dx, y |-> nodes[i].y + dy,
                  ox |-> nodes[i].ox + dx, oy |-> nodes[i].oy + dy]]

\* f[lo] + ... + f[hi], lo <= hi (a loop's running total).
RECURSIVE Sum(_, _, _)
Sum(f, lo, hi) ==
  IF lo = hi THEN f[lo]
  ELSE Sum(f, lo, (lo + hi) \div 2) + Sum(f, (lo + hi) \div 2 + 1, hi)

SumX(nodes) == Sum([i \in Idx |-> nodes[i].x], 0, NODE_COUNT - 1)
SumY(nodes) == Sum([i \in Idx |-> nodes[i].y], 0, NODE_COUNT - 1)

updateCentroid(state) ==
  [state EXCEPT !.cx = RDiv(SumX(state.nodes), NODE_COUNT),
                !.cy = RDiv(SumY(state.nodes), NODE_COUNT)]

\* One node's squared displacement in units^2, saturated (at 2000 px^2) so
\* that the sum stays in range; the mean is only ever compared with
\* REST_THRESHOLD, which lies far below the saturation value.
NodeEnergy(n) ==
  LET vx == n.x - n.ox
      vy == n.y - n.oy
  IN  IF Abs(vx) > 3000 \/ Abs(vy) > 3000 THEN 20000000 ELSE vx * vx + vy * vy

SumEnergy(nodes) == Sum([i \in Idx |-> NodeEnergy(nodes[i])], 0, NODE_COUNT - 1)

\* Mean squared per-node displacement, in units^2.
getKineticEnergy(state) == SumEnergy(state.nodes) \div NODE_COUNT

\* getKineticEnergy(state) < REST_THRESHOLD
AtRest(state) == 10 * getKineticEnergy(state) < REST_THRESHOLD * PX * PX

\* Squared distance from (px, py) to the nearest point of rectangle w.
RectDist2(w, px, py) ==
  LET qx == Max2(w.x, Min2(px, w.x + w.width))
      qy == Max2(w.y, Min2(py, w.y + w.height))
  IN  (qx - px) * (qx - px) + (qy - py) * (qy - py)

\* Index of the first rectangle of seq at minimum distance (strict <
\* keeps the earlier one on ties); seq is not empty.
RECURSIVE NearestIdx(_, _, _, _, _)
NearestIdx(seq, px, py, k, best) ==
  IF k > Len(seq) THEN best
  ELSE NearestIdx(seq, px, py, k + 1,
         IF RectDist2(seq[k], px, py) < RectDist2(seq[best], px, py)
         THEN k ELSE best)

\* nearestWindow: the window closest to the cached centroid (windows not empty).
nearestWindow(state) ==
  state.windows[NearestIdx(state.windows, state.cx, state.cy, 1, 1)]

\* relaxSpring, on the node array.  d || 0.001 only matters when d = 0, and
\* then dx = dy = 0, so both moves are 0.  Past LargeLen the quotient is
\* taken before the product with the stiffness, to stay within range.
relaxSpring(nodes, spring) ==
  LET a == nodes[spring.a]
      b == nodes[spring.b]
      dx == b.x - a.x
      dy == b.y - a.y
      d == Hypot(dx, dy)
      move(c) == IF d = 0 THEN 0
                 ELSE IF d <= LargeLen
                 THEN MulDiv(c * spring.stiffness, d - spring.restLength, 2000 * d)
                 ELSE RDiv(MulDiv(c, d - spring.restLength, d) * spring.stiffness, 2000)
      mx == move(dx)
      my == move(dy)
  IN  [nodes EXCEPT ![spring.a] = [@ EXCEPT !.x = @ + mx, !.y = @ + my],
                    ![spring.b] = [@ EXCEPT !.x = @ - mx, !.y = @ - my]]

\* for (const spring of state.springs) relaxSpring(state.nodes, spring),
\* over the springs lo .. hi in order: the first half of the range, then the
\* second half on the array the first half left.
RECURSIVE RelaxAll(_, _, _, _)
RelaxAll(nodes, springs, lo, hi) ==
  IF lo > hi THEN nodes
  ELSE IF lo = hi THEN relaxSpring(nodes, springs[lo])
  ELSE Let(RelaxAll(nodes, springs, lo, (lo + hi) \div 2),
           LAMBDA moved : RelaxAll(moved, springs, (lo + hi) \div 2 + 1, hi))

\* Twice the signed shoelace sum, about node 0 (the sum is invariant under
\* translation; taking node 0 as origin keeps the products small), with
\* every coordinate divided by k.
Shoelace(nodes, k) ==
  Sum([i \in Idx |->
        LET j == (i + 1) % NODE_COUNT
            xi == (nodes[i].x - nodes[0].x) \div k
            yi == (nodes[i].y - nodes[0].y) \div k
            xj == (nodes[j].x - nodes[0].x) \div k
            yj == (nodes[j].y - nodes[0].y) \div k
        IN  xi * yj - xj * yi], 0, NODE_COUNT - 1)

\* The largest coordinate offset of a node from node 0.
Span(nodes) ==
  LET offsets == {Abs(nodes[i].x - nodes[0].x) : i \in Idx}
                   \cup {Abs(nodes[i].y - nodes[0].y) : i \in Idx}
  IN  CHOOSE m \in offsets : \A o \in offsets : m >= o

\* Twice polygonArea(nodes), in units^2.  A polygon wider than LargeLen / 4
\* is measured on coordinates scaled down by k and the area scaled back,
\* saturating at 2 * 10^9 (an area at which the pressure force is nil).
polygonArea2(nodes) ==
  LET k == Span(nodes) \div (LargeLen \div 4) + 1
      a == Abs(Shoelace(nodes, k))
  IN  IF k = 1 THEN a
      ELSE IF a >= 2000000000 \div (k * k) THEN 2000000000
      ELSE a * k * k

\* A displacement kept within 10^4 px, far beyond every rectangle of the
\* model: the collision passes that follow clamp it all the same.
FarClamp(v) == Max2(-(10000 * PX), Min2(10000 * PX, v))

\* The body of applyPressure's loop for node i; prev and next are read
\* from the array as the loop has left it.  force = PRESSURE_STRENGTH *
\* pressure / area, pressure in thousandths, area2 = 2 * area.
PressureNode(nodes, i, pressure, area2) ==
  LET prev == nodes[(i - 1 + NODE_COUNT) % NODE_COUNT]
      next == nodes[(i + 1) % NODE_COUNT]
      ex == next.x - prev.x
      ey == next.y - prev.y
      f == (2 * PRESSURE_STRENGTH * pressure * PX * PX) \div 1000
  IN  [nodes EXCEPT ![i] = [@ EXCEPT !.x = @ + FarClamp(MulDiv(-ey, f, area2)),
                                     !.y = @ + FarClamp(MulDiv(ex, f, area2))]]

\* The loop over the nodes lo .. hi in order (first half, then second half
\* on the array the first half left).
RECURSIVE PressureLoop(_, _, _, _, _)
PressureLoop(nodes, lo, hi, pressure, area2) ==
  IF lo = hi THEN PressureNode(nodes, lo, pressure, area2)
  ELSE Let(PressureLoop(nodes, lo, (lo + hi) \div 2, pressure, area2),
           LAMBDA moved : PressureLoop(moved, (lo + hi) \div 2 + 1, hi, pressure, area2))

\* applyPressure, on the node array: area = polygonArea(nodes) || 1.
applyPressure(nodes, pressure) ==
  Let(polygonArea2(nodes),
      LAMBDA a2 : PressureLoop(nodes, 0, NODE_COUNT - 1, pressure,
                               IF a2 = 0 THEN 2 * PX * PX ELSE a2))

\* ------------------------------------------------------------------------
\* Collision: monitor bounds and window walls
\* ------------------------------------------------------------------------

\* The bounce with a factor above 1.
Decay_gain(v) == RDiv(v * (10 + BOUNCE_DECAY), 10)

\* vx * BOUNCE_DECAY
Decay(v) == RDiv(v * BOUNCE_DECAY, 10)

\* The reflect-and-clamp rule on one axis: position p, previous position o,
\* inside [lo, hi].  Returns <<p, o>>.
BounceAxis(p, o, lo, hi) ==
  IF p < lo THEN <<lo, Min2(hi, lo - Decay(p - o))>>
  ELSE IF p > hi THEN <<hi, Max2(lo, hi - Decay(p - o))>>
  ELSE <<p, o>>

\* One node bounced off the inner faces of rect m (constrainToBounds, and
\* constrainWindowWalls when the centroid is inside the window).
BounceInside(n, m) ==
  LET bx == BounceAxis(n.x, n.ox, m.x, m.x + m.width)
      by == BounceAxis(n.y, n.oy, m.y, m.y + m.height)
  IN  [x |-> bx[1], ox |-> bx[2], y |-> by[1], oy |-> by[2]]

constrainToBounds(nodes, monitor) ==
  [i \in Idx |-> BounceInside(nodes[i], monitor)]

hardClampToMonitor(nodes, monitor) ==
  LET left == monitor.x
      right == monitor.x + monitor.width
      top == monitor.y
      bottom == monitor.y + monitor.height
  IN  [i \in Idx |->
        LET node == nodes[i]
        IN  IF node.x < left \/ node.x > right \/ node.y < top \/ node.y > bottom
            THEN [x |-> Max2(left, Min2(node.x, right)),
                  y |-> Max2(top, Min2(node.y, bottom)),
                  ox |-> Max2(left, Min2(node.ox, right)),
                  oy |-> Max2(top, Min2(node.oy, bottom))]
            ELSE node]

\* (x, y) strictly inside rect w.
StrictlyInside(x, y, w) ==
  x > w.x /\ x < w.x + w.width /\ y > w.y /\ y < w.y + w.height

\* PushOutside with the faces checked in the order bottom, top, left, right.
PushOutside_bottomFirst(node, win) ==
  LET left == win.x
      right == win.x + win.width
      top == win.y
      bottom == win.y + win.height
      dL == node.x - left
      dR == right - node.x
      dT == node.y - top
      dB == bottom - node.y
      minD == Min2(Min2(dL, dR), Min2(dT, dB))
  IN  IF node.x <= left \/ node.x >= right \/ node.y <= top \/ node.y >= bottom
      THEN node
      ELSE IF minD = dB
        THEN [node EXCEPT !.y = bottom, !.oy = bottom + RDiv((node.y - node.oy) * BOUNCE_DECAY, 10)]
      ELSE IF minD = dT
        THEN [node EXCEPT !.y = top, !.oy = top + RDiv((node.y - node.oy) * BOUNCE_DECAY, 10)]
      ELSE IF minD = dL
        THEN [node EXCEPT !.x = left, !.ox = left + RDiv((node.x - node.ox) * BOUNCE_DECAY, 10)]
      ELSE [node EXCEPT !.x = right, !.ox = right + RDiv((node.x - node.ox) * BOUNCE_DECAY, 10)]

\* One node pushed out of window win (centroid outside the window): a node
\* strictly inside is snapped to its nearest face, checked in the order
\* top, bottom, left, right, with the normal velocity reflected.
PushOutside(node, win) ==
  LET left == win.x
      right == win.x + win.width
      top == win.y
      bottom == win.y + win.height
      dL == node.x - left
      dR == right - node.x
      dT == node.y - top
      dB == bottom - node.y
      minD == Min2(Min2(dL, dR), Min2(dT, dB))
  IN  IF node.x <= left \/ node.x >= right \/ node.y <= top \/ node.y >= bottom
      THEN node
      ELSE IF minD = dT
        THEN [node EXCEPT !.y = top, !.oy = top + Decay(node.y - node.oy)]
      ELSE IF minD = dB
        THEN [node EXCEPT !.y = bottom, !.oy = bottom + Decay(node.y - node.oy)]
      ELSE IF minD = dL
        THEN [node EXCEPT !.x = left, !.ox = left + Decay(node.x - node.ox)]
      ELSE [node EXCEPT !.x = right, !.ox = right + Decay(node.x - node.ox)]

\* The body of constrainWindowWalls' loop for one window; the containment
\* test reads the cached centroid (cx, cy).
WallsOneWindow(nodes, cx, cy, win) ==
  IF StrictlyInside(cx, cy, win)
  THEN [i \in Idx |-> BounceInside(nodes[i], win)]
  ELSE [i \in Idx |-> PushOutside(nodes[i], win)]

RECURSIVE WallsLoop(_, _, _, _, _)
WallsLoop(nodes, cx, cy, windows, k) ==
  IF k > Len(windows) THEN nodes
  ELSE Let(WallsOneWindow(nodes, cx, cy, windows[k]),
           LAMBDA after : WallsLoop(after, cx, cy, windows, k + 1))

constrainWindowWalls(state) ==
  [state EXCEPT !.nodes = WallsLoop(state.nodes, state.cx, state.cy, state.windows, 1)]

\* What one pass of a collision routine over one rectangle did: the rectangle,
\* the mode ("inside": nodes kept inside rect, "outside": nodes pushed out of
\* it), the cached centroid the mode was chosen from, and the node array
\* before and after the pass.
PassRecord(mode, rect, cx, cy, before, after) ==
  [mode |-> mode, rect |-> rect, cx |-> cx, cy |-> cy,
   before |-> before, after |-> after]

\* The passes of one constrainWindowWalls call, one per window, in order.
RECURSIVE WallsPasses(_, _, _, _, _)
WallsPasses(nodes, cx, cy, windows, k) ==
  IF k > Len(windows) THEN <<>>
  ELSE Let(WallsOneWindow(nodes, cx, cy, windows[k]),
           LAMBDA after :
             <<PassRecord(IF StrictlyInside(cx, cy, windows[k]) THEN "inside" ELSE "outside",
                          windows[k], cx, cy, nodes, after)>>
             \o WallsPasses(after, cx, cy, windows, k + 1))

\* ------------------------------------------------------------------------
\* Forces
\* ------------------------------------------------------------------------

\* r * 0.6
Sit(r) == RDiv(r * 6, 10)

\* Math.max(lo + r, Math.min(c, hi - r))
ClampSpan(c, lo, hi, r) == Max2(lo + r, Min2(c, hi - r))

\* The point applyEdgeAdhesion pulls the centroid to, <<targetX, targetY>>.
AdhesionTarget(state, win) ==
  LET r == state.radius
  IN  CASE state.walkEdge = "top" ->
             <<ClampSpan(state.cx, win.x, win.x + win.width, r), win.y - Sit(r)>>
        [] state.walkEdge = "bottom" ->
             <<ClampSpan(state.cx, win.x, win.x + win.width, r),
               win.y + win.height + Sit(r)>>
        [] state.walkEdge = "left" ->
             <<win.x - Sit(r), ClampSpan(state.cy, win.y, win.y + win.height, r)>>
        [] state.walkEdge = "right" ->
             <<win.x + win.width + Sit(r),
               ClampSpan(state.cy, win.y, win.y + win.height, r)>>

applyEdgeAdhesion(state) ==
  IF state.windows = <<>> THEN state
  ELSE LET t == AdhesionTarget(state, nearestWindow(state))
           dx == RDiv((t[1] - state.cx) * ADHESION_STRENGTH, 100)
           dy == RDiv((t[2] - state.cy) * ADHESION_STRENGTH, 100)
       IN  [state EXCEPT !.nodes = TranslateNodes(@, dx, dy)]

\* One window's pull on the centroid, <<fx, fy>> in thousandths of a unit.
AttractOne(state, win, dt) ==
  LET nx == Max2(win.x, Min2(state.cx, win.x + win.width))
      ny == Max2(win.y, Min2(state.cy, win.y + win.height))
      dx == nx - state.cx
      dy == ny - state.cy
      dist == Hypot(dx, dy)
      range == ATTRACT_RANGE * PX
      strength == RDiv(ATTRACT_STRENGTH * (range - dist) * dt * PX, 10 * range)
  IN  IF dist < PX \/ dist > range THEN <<0, 0>>
      ELSE <<RDiv(dx * strength, dist), RDiv(dy * strength, dist)>>

RECURSIVE AttractSum(_, _, _)
AttractSum(state, dt, k) ==
  IF k > Len(state.windows) THEN <<0, 0>>
  ELSE LET f == AttractOne(state, state.windows[k], dt)
           rest == AttractSum(state, dt, k + 1)
       IN  <<f[1] + rest[1], f[2] + rest[2]>>

applyWindowAttraction(state, dt) ==
  LET total == AttractSum(state, dt, 1)
  IN  [state EXCEPT !.nodes = MoveNodes(@, RDiv(total[1], 1000), RDiv(total[2], 1000))]

\* followStrength in hundred-thousandths: Math.min(cursorSpeed / 5, 1) * 0.12
FollowStrength(cursorSpeed) == Min2(RDiv(cursorSpeed * 1000, 5 * PX), 1000) * 12

applyDragForces(state) ==
  LET targetCx == state.dragX - state.grabOffsetX
      targetCy == state.dragY - state.grabOffsetY
      cursorSpeed == Hypot(state.dragX - state.prevDragX,
                           state.dragY - state.prevDragY)
      fs == FollowStrength(cursorSpeed)
      dx == MulDiv(targetCx - state.cx, fs, 100000)
      dy == MulDiv(targetCy - state.cy, fs, 100000)
  IN  [state EXCEPT !.prevDragX = state.dragX, !.prevDragY = state.dragY,
                    !.nodes = MoveNodes(@, dx, dy)]

STICK_RADIUS == 3

\* dot ^ 5 for dot in ten-thousandths.
Pow5(d) ==
  LET d2 == RDiv(d * d, 10000)
      d3 == RDiv(d2 * d, 10000)
      d4 == RDiv(d3 * d, 10000)
  IN  RDiv(d4 * d, 10000)

\* The body of applyCursorStickConstraint's loop for one node.
StickNode(n, cx, cy, relX, relY, cursorDist) ==
  LET ndx == n.x - cx
      ndy == n.y - cy
      nd == Hypot(ndx, ndy)
      dot == IF nd = 0 THEN 0
             ELSE MulDiv(MulDiv(ndx, relX, nd) + MulDiv(ndy, relY, nd), 10000, cursorDist)
      minDist == RDiv((cursorDist + STICK_RADIUS * PX) * Pow5(dot), 10000)
      push == RDiv((minDist - nd) * 8, 10)
  IN  IF dot <= 0 \/ nd >= minDist THEN n
      ELSE [n EXCEPT !.x = @ + MulDiv(ndx, push, nd), !.y = @ + MulDiv(ndy, push, nd)]

applyCursorStickConstraint(state) ==
  LET relX == state.dragX - state.cx
      relY == state.dragY - state.cy
      cursorDist == Hypot(relX, relY)
  IN  IF cursorDist < PX THEN state
      ELSE [state EXCEPT !.nodes =
             [i \in Idx |-> StickNode(@[i], state.cx, state.cy, relX, relY, cursorDist)]]

\* ------------------------------------------------------------------------
\* Behaviour: walking, floating, edge targeting
\* ------------------------------------------------------------------------

\* px per second times dt (ms), in units
PerTick(speed, dt) == RDiv(speed * dt * PX, 1000)

\* applyWalkForces that looks for the window only after the translation: a
\* body walking when the last window closed takes one more step.
applyWalkForces_walkFirst(state, dt, rndStop) ==
  LET speed == PerTick(state.walkSpeed * state.walkDir, dt)
      prevEdge == state.walkEdge
      moved == IF prevEdge \in {"top", "bottom"}
               THEN updateCentroid([state EXCEPT !.nodes = TranslateNodes(@, speed, 0)])
               ELSE updateCentroid([state EXCEPT !.nodes = TranslateNodes(@, 0, speed)])
  IN
  IF state.windows = <<>> THEN [moved EXCEPT !.moveState = "IDLE"]
  ELSE
    LET win == nearestWindow(state)
        turned ==
          IF prevEdge \in {"top", "bottom"}
          THEN IF moved.cx < win.x + state.radius
               THEN [moved EXCEPT !.walkEdge = "left",
                                  !.walkDir = IF prevEdge = "top" THEN 1 ELSE -1]
               ELSE IF moved.cx > win.x + win.width - state.radius
               THEN [moved EXCEPT !.walkEdge = "right",
                                  !.walkDir = IF prevEdge = "top" THEN -1 ELSE 1]
               ELSE moved
          ELSE IF moved.cy < win.y + state.radius
               THEN [moved EXCEPT !.walkEdge = "top",
                                  !.walkDir = IF prevEdge = "left" THEN 1 ELSE -1]
               ELSE IF moved.cy > win.y + win.height - state.radius
               THEN [moved EXCEPT !.walkEdge = "bottom",
                                  !.walkDir = IF prevEdge = "left" THEN -1 ELSE 1]
               ELSE moved
    IN  IF rndStop THEN [turned EXCEPT !.moveState = "IDLE"] ELSE turned

\* applyWalkForces; rndStop is the outcome of Math.random() < 0.002.
applyWalkForces(state, dt, rndStop) ==
  IF state.windows = <<>> THEN [state EXCEPT !.moveState = "IDLE"]
  ELSE
    LET win == nearestWindow(state)
        speed == PerTick(state.walkSpeed * state.walkDir, dt)
        prevEdge == state.walkEdge
        moved == IF prevEdge \in {"top", "bottom"}
                 THEN updateCentroid([state EXCEPT !.nodes = TranslateNodes(@, speed, 0)])
                 ELSE updateCentroid([state EXCEPT !.nodes = TranslateNodes(@, 0, speed)])
        turned ==
          IF prevEdge \in {"top", "bottom"}
          THEN IF moved.cx < win.x + state.radius
               THEN [moved EXCEPT !.walkEdge = "left",
                                  !.walkDir = IF prevEdge = "top" THEN 1 ELSE -1]
               ELSE IF moved.cx > win.x + win.width - state.radius
               THEN [moved EXCEPT !.walkEdge = "right",
                                  !.walkDir = IF prevEdge = "top" THEN -1 ELSE 1]
               ELSE moved
          ELSE IF moved.cy < win.y + state.radius
               THEN [moved EXCEPT !.walkEdge = "top",
                                  !.walkDir = IF prevEdge = "left" THEN 1 ELSE -1]
               ELSE IF moved.cy > win.y + win.height - state.radius
               THEN [moved EXCEPT !.walkEdge = "bottom",
                                  !.walkDir = IF prevEdge = "left" THEN -1 ELSE 1]
               ELSE moved
    IN  IF rndStop THEN [turned EXCEPT !.moveState = "IDLE"] ELSE turned

\* applyFloatForces: d = Math.sqrt(dx * dx + dy * dy) || 1
applyFloatForces(state, dt) ==
  LET dx == state.targetX - state.cx
      dy == state.targetY - state.cy
      d0 == Hypot(dx, dy)
      d == IF d0 = 0 THEN PX ELSE d0
      speed == Min2(PerTick(FLOAT_SPEED, dt), d)
      mx == MulDiv(dx, speed, d)
      my == MulDiv(dy, speed, d)
  IN  [state EXCEPT !.nodes = TranslateNodes(@, mx, my)]

\* The four candidates of computeFloatTarget, in the order of the source,
\* after the clamp along the window extent.
FloatCandidates(state, win) ==
  LET cx == state.cx
      cy == state.cy
      r == state.radius
  IN  << [x |-> ClampSpan(cx, win.x, win.x + win.width, r),
          y |-> win.y - r, edge |-> "top"],
         [x |-> ClampSpan(cx, win.x, win.x + win.width, r),
          y |-> win.y + win.height + r, edge |-> "bottom"],
         [x |-> win.x - r,
          y |-> ClampSpan(cy, win.y, win.y + win.height, r), edge |-> "left"],
         [x |-> win.x + win.width + r,
          y |-> ClampSpan(cy, win.y, win.y + win.height, r), edge |-> "right"] >>

Dist2(ax, ay, bx, by) == (ax - bx) * (ax - bx) + (ay - by) * (ay - by)

\* The first candidate at minimum squared distance from (cx, cy).
RECURSIVE BestCandidate(_, _, _, _, _)
BestCandidate(cands, cx, cy, k, best) ==
  IF k > Len(cands) THEN best
  ELSE BestCandidate(cands, cx, cy, k + 1,
         IF Dist2(cands[k].x, cands[k].y, cx, cy)
              < Dist2(cands[best].x, cands[best].y, cx, cy)
         THEN k ELSE best)

\* computeFloatTarget that aims at the centroid when there is no window.
computeFloatTarget_aimsHere(state) ==
  IF state.windows = <<>>
  THEN [state EXCEPT !.targetX = state.cx, !.targetY = state.cy]
  ELSE LET cands == FloatCandidates(state, nearestWindow(state))
           best == cands[BestCandidate(cands, state.cx, state.cy, 1, 1)]
       IN  [state EXCEPT !.targetX = best.x, !.targetY = best.y,
                         !.walkEdge = best.edge]

computeFloatTarget(state) ==
  IF state.windows = <<>> THEN state
  ELSE LET cands == FloatCandidates(state, nearestWindow(state))
           best == cands[BestCandidate(cands, state.cx, state.cy, 1, 1)]
       IN  [state EXCEPT !.targetX = best.x, !.targetY = best.y,
                         !.walkEdge = best.edge]

snapToEdge(state) ==
  IF state.windows = <<>> THEN state
  ELSE LET win == nearestWindow(state)
           r == state.radius
           targetX == CASE state.walkEdge = "left" -> win.x - Sit(r)
                        [] state.walkEdge = "right" -> win.x + win.width + Sit(r)
                        [] OTHER -> state.cx
           targetY == CASE state.walkEdge = "top" -> win.y - Sit(r)
                        [] state.walkEdge = "bottom" -> win.y + win.height + Sit(r)
                        [] OTHER -> state.cy
       IN  updateCentroid([state EXCEPT !.nodes =
             TranslateNodes(@, targetX - state.cx, targetY - state.cy)])

\* Index of the first monitor containing (x, y), 0 when there is none.
RECURSIVE findContainingMonitor(_, _, _, _)
findContainingMonitor(x, y, monitors, k) ==
  IF k > Len(monitors) THEN 0
  ELSE LET m == monitors[k]
       IN  IF x >= m.x /\ x < m.x + m.width /\ y >= m.y /\ y < m.y + m.height
           THEN k
           ELSE findContainingMonitor(x, y, monitors, k + 1)

\* Index of the nearest monitor (monitors not empty).
findNearestMonitor(x, y, monitors) == NearestIdx(monitors, x, y, 1, 1)

\* findContainingMonitor(...) ?? findNearestMonitor(...)
ResolveMonitor(x, y, monitors) ==
  LET c == findContainingMonitor(x, y, monitors, 1)
  IN  monitors[IF c # 0 THEN c ELSE findNearestMonitor(x, y, monitors)]

\* ------------------------------------------------------------------------
\* Main step
\* ------------------------------------------------------------------------

\* state.targetPressure * breathMod, in thousandths
BreathPressure(state) ==
  RDiv(state.targetPressure *
       (1000 + RDiv(Sin1000(state.breathPhase) * BREATH_AMOUNT, 1000)), 1000)

\* The switch with a Free body going to Floating as soon as it rests,
\* whatever the cooldown.
MovementLogic_noCooldown(state, dt, rnd) ==
  CASE state.moveState = "DRAGGING" -> applyDragForces(state)
    [] state.moveState = "FREE" ->
         LET s1 == [state EXCEPT !.floatTimer = @ - dt]
         IN  IF AtRest(s1)
             THEN computeFloatTarget([s1 EXCEPT !.moveState = "FLOATING",
                                                !.floatTimer = 0])
             ELSE s1
    [] state.moveState = "FLOATING" -> applyFloatForces(state, dt)
    [] state.moveState = "WALKING" -> applyWalkForces(state, dt, rnd.stop)
    [] state.moveState = "IDLE" ->
         IF state.windows # <<>> /\ rnd.walk
         THEN [state EXCEPT !.moveState = "WALKING",
                            !.walkDir = IF rnd.dir THEN 1 ELSE -1]
         ELSE state

\* The switch on state.moveState.  rnd carries the outcomes of the
\* Math.random() calls: walk (< 0.003), dir (< 0.5), stop (< 0.002).
MovementLogic(state, dt, rnd) ==
  CASE state.moveState = "DRAGGING" -> applyDragForces(state)
    [] state.moveState = "FREE" ->
         LET s1 == [state EXCEPT !.floatTimer = @ - dt]
         IN  IF s1.floatTimer <= 0 /\ AtRest(s1)
             THEN computeFloatTarget([s1 EXCEPT !.moveState = "FLOATING",
                                                !.floatTimer = 0])
             ELSE s1
    [] state.moveState = "FLOATING" -> applyFloatForces(state, dt)
    [] state.moveState = "WALKING" -> applyWalkForces(state, dt, rnd.stop)
    [] state.moveState = "IDLE" ->
         IF state.windows # <<>> /\ rnd.walk
         THEN [state EXCEPT !.moveState = "WALKING",
                            !.walkDir = IF rnd.dir THEN 1 ELSE -1]
         ELSE state

\* clinging ? 0 : GRAVITY * dt * dt, in units
GravityTerm(dt, clinging) ==
  IF clinging THEN 0 ELSE RDiv(GRAVITY * dt * dt * PX, 1000000)

\* The Verlet loop body for one node; cap is in px / s.
IntegrateNode(n, dt, cap, clinging) ==
  LET vx0 == RDiv((n.x - n.ox) * DAMPING, 100)
      vy0 == RDiv((n.y - n.oy) * DAMPING, 100)
      speed == Hypot(vx0, vy0)
      limit == PerTick(cap, dt)
      vx == IF speed > limit THEN MulDiv(vx0, limit, speed) ELSE vx0
      vy == IF speed > limit THEN MulDiv(vy0, limit, speed) ELSE vy0
  IN  [ox |-> n.x, oy |-> n.y, x |-> n.x + vx,
       y |-> n.y + vy + GravityTerm(dt, clinging)]

Integrate(state, dt, clinging) ==
  LET cap == IF state.moveState = "FREE" THEN MAX_VELOCITY_FREE ELSE MAX_VELOCITY
  IN  [state EXCEPT !.nodes = [i \in Idx |-> IntegrateNode(@[i], dt, cap, clinging)]]

\* One constraint iteration.  Returns the new state and the collision passes
\* it made: the window passes, then the monitor pass.
ConstraintIter(state, pressure, monitor) ==
  Let([state EXCEPT !.nodes = applyPressure(RelaxAll(@, state.springs, 1, Len(state.springs)), pressure)],
      LAMBDA s1 :
  Let(IF s1.moveState = "DRAGGING" THEN applyCursorStickConstraint(s1) ELSE s1,
      LAMBDA s2 :
  Let(constrainWindowWalls(s2),
      LAMBDA s3 :
  Let([s3 EXCEPT !.nodes = constrainToBounds(@, monitor)],
      LAMBDA s4 :
      [state |-> s4,
       passes |-> WallsPasses(s2.nodes, s2.cx, s2.cy, s2.windows, 1)
                  \o <<PassRecord("inside", monitor, s3.cx, s3.cy, s3.nodes, s4.nodes)>>]))))

\* The constraint iterations from iter on.  Returns the final state, the
\* passes made, and the monitor handed in.
RECURSIVE ConstraintLoop(_, _, _, _)
ConstraintLoop(state, pressure, monitor, iter) ==
  IF iter >= CONSTRAINT_ITERS
  THEN [state |-> state, passes |-> <<>>, monitor |-> monitor]
  ELSE Let(ConstraintIter(state, pressure, monitor),
           LAMBDA one :
       Let(ConstraintLoop(one.state, pressure, monitor, iter + 1),
           LAMBDA rest :
           [rest EXCEPT !.passes = one.passes \o @]))

\* clinging without the test of the mode: any body with a window in sight.
Clinging_anyMode(state) ==
  state.windows # <<>>

\* Whether the blob clings to a window edge in this tick.
Clinging(state) ==
  state.moveState \in {"WALKING", "IDLE"} /\ state.windows # <<>>

\* The arrival check that goes to Idle where the body is.
Arrive_noSnap(state) ==
  IF /\ state.moveState = "FLOATING"
     /\ Hypot(state.targetX - state.cx, state.targetY - state.cy) < ARRIVE_DIST * PX
  THEN [state EXCEPT !.moveState = "IDLE"]
  ELSE state

\* The arrival check without the test of the mode.
Arrive_anyMode(state) ==
  IF Hypot(state.targetX - state.cx, state.targetY - state.cy) < ARRIVE_DIST * PX
  THEN snapToEdge([state EXCEPT !.moveState = "IDLE"])
  ELSE state

\* The check at the end of the tick: a floating blob that reached its target.
Arrive(state) ==
  IF /\ state.moveState = "FLOATING"
     /\ Hypot(state.targetX - state.cx, state.targetY - state.cy) < ARRIVE_DIST * PX
  THEN snapToEdge([state EXCEPT !.moveState = "IDLE"])
  ELSE state

\* stepBlob for a non-empty monitor list.  Returns the new state, the
\* body as the constraints and the clamp left it (before the arrival
\* check), the monitor resolved after the integration, the collision passes
\* made, whether applyEdgeAdhesion was called and the gravity term the
\* integration added to every node.
StepCore(state, dtIn, monitors, rnd) ==
  LET dt == Min2(dtIn, MAX_DT)
      s0 == [state EXCEPT !.breathPhase = @ + RDiv(BREATH_SPEED * dt, 10)]
      clinging == Clinging(state)
  IN
  Let(MovementLogic(s0, dt, rnd),
      LAMBDA s1 :
  Let(IF clinging THEN applyEdgeAdhesion(s1)
      ELSE IF s1.moveState # "DRAGGING" THEN applyWindowAttraction(s1, dt)
      ELSE s1,
      LAMBDA s3 :
  Let(updateCentroid(Integrate(s3, dt, clinging)),
      LAMBDA s4 :
  Let(ConstraintLoop(s4, BreathPressure(s0), ResolveMonitor(s4.cx, s4.cy, monitors), 0),
      LAMBDA loop :
  Let(updateCentroid([loop.state EXCEPT !.nodes = hardClampToMonitor(@, loop.monitor)]),
      LAMBDA s6 :
      [state |-> Arrive(s6), settled |-> s6,
       monitor |-> loop.monitor, passes |-> loop.passes,
       adhesion |-> clinging, gravity |-> GravityTerm(dt, clinging)])))))

\* stepBlob with the breathing phase advanced before the monitor list is
\* looked at.
stepBlob_breatheFirst(state, dt, monitors, rnd) ==
  IF monitors = <<>>
  THEN [state EXCEPT !.breathPhase = @ + RDiv(BREATH_SPEED * Min2(dt, MAX_DT), 10)]
  ELSE StepCore(state, dt, monitors, rnd).state

stepBlob(state, dt, monitors, rnd) ==
  IF monitors = <<>> THEN state ELSE StepCore(state, dt, monitors, rnd).state

\* ------------------------------------------------------------------------
\* Drag and window events
\* ------------------------------------------------------------------------

\* Index of the first node nearest to (mx, my).
\* (the loop replaces bestIdx only on a strictly smaller distance)
NearestNode(nodes, mx, my) ==
  LET d == [i \in Idx |-> Dist2(nodes[i].x, nodes[i].y, mx, my)]
  IN  CHOOSE i \in Idx : /\ \A j \in Idx : d[i] <= d[j]
                         /\ \A j \in 0 .. i - 1 : d[j] > d[i]

startDrag(state, mx, my) ==
  [state EXCEPT
     !.moveState = "DRAGGING",
     !.dragX = mx, !.dragY = my, !.prevDragX = mx, !.prevDragY = my,
     !.grabOffsetX = mx - state.cx, !.grabOffsetY = my - state.cy,
     !.grabNodeIdx = NearestNode(state.nodes, mx, my),
     !.nodes = [i \in Idx |->
                 LET n == state.nodes[i]
                 IN  [n EXCEPT !.ox = n.x - Decay(n.x - n.ox),
                               !.oy = n.y - Decay(n.y - n.oy)]]]

updateDrag(state, mx, my) ==
  [state EXCEPT !.prevDragX = state.dragX, !.prevDragY = state.dragY,
                !.dragX = mx, !.dragY = my]

\* The throw velocity without the cap.
ThrowVelocity_uncapped(state) ==
  <<(state.dragX - state.prevDragX) * 8, (state.dragY - state.prevDragY) * 8>>

\* The throw velocity of endDrag, <<throwVx, throwVy>>: 8 times the last
\* pointer displacement, capped to MAX_THROW.
ThrowVelocity(state) ==
  LET vx == (state.dragX - state.prevDragX) * 8
      vy == (state.dragY - state.prevDragY) * 8
      throwSpeed == Hypot(vx, vy)
      maxThrow == MAX_THROW * PX
  IN  IF throwSpeed > maxThrow
      THEN <<MulDiv(vx, maxThrow, throwSpeed), MulDiv(vy, maxThrow, throwSpeed)>>
      ELSE <<vx, vy>>

endDrag(state) ==
  LET v == ThrowVelocity(state)
  IN  [state EXCEPT
         !.nodes = [i \in Idx |->
                     LET n == state.nodes[i]
                     IN  [n EXCEPT !.ox = n.x - v[1], !.oy = n.y - v[2]]],
         !.moveState = "FREE",
         !.floatTimer = FLOAT_DELAY]

\* setWindows rebuilding the body without its last diameter spring.
setWindows_dropSpring(state, windows) ==
  LET s1 == [state EXCEPT !.windows = windows,
                          !.springs = SubSeq(@, 1, Len(@) - 1)]
  IN  IF s1.moveState \in {"IDLE", "WALKING"} THEN computeFloatTarget(s1) ELSE s1

setWindows(state, windows) ==
  LET s1 == [state EXCEPT !.windows = windows]
  IN  IF s1.moveState \in {"IDLE", "WALKING"} THEN computeFloatTarget(s1) ELSE s1

\* isDragging
isDragging(state) == state.moveState = "DRAGGING"

\* ------------------------------------------------------------------------
\* Hit test (canvas/hitTest.ts)
\* ------------------------------------------------------------------------

\* expandPolygon: every node moved away from the mean of the nodes by amount.
expandPolygon(nodes, amount) ==
  LET cx == RDiv(SumX(nodes), NODE_COUNT)
      cy == RDiv(SumY(nodes), NODE_COUNT)
  IN  [i \in Idx |->
        LET dx == nodes[i].x - cx
            dy == nodes[i].y - cy
            h == Hypot(dx, dy)
            d == IF h = 0 THEN PX ELSE h
        IN  [x |-> nodes[i].x + MulDiv(dx, amount, d),
             y |-> nodes[i].y + MulDiv(dy, amount, d)]]

\* The ray-casting loop: the point is inside when the ray crosses an odd
\* number of edges (i, j), j the node before i.
RayCast(px, py, poly) ==
  LET crosses(i) ==
        LET j == (i + NODE_COUNT - 1) % NODE_COUNT
            xi == poly[i].x
            yi == poly[i].y
            xj == poly[j].x
            yj == poly[j].y
        IN  /\ (yi > py) # (yj > py)
            /\ px < MulDiv(xj - xi, py - yi, yj - yi) + xi
  IN  Cardinality({i \in Idx : crosses(i)}) % 2 = 1

isPointInPolygon(px, py, nodes, padding) ==
  LET outsideBox ==
        \/ \A i \in Idx : px < nodes[i].x - padding
        \/ \A i \in Idx : px > nodes[i].x + padding
        \/ \A i \in Idx : py < nodes[i].y - padding
        \/ \A i \in Idx : py > nodes[i].y + padding
  IN  IF padding > 0 /\ outsideBox THEN FALSE
      ELSE RayCast(px, py, IF padding > 0 THEN expandPolygon(nodes, padding)
                           ELSE [i \in Idx |-> [x |-> nodes[i].x, y |-> nodes[i].y]])

HIT_PADDING == 10

\* ------------------------------------------------------------------------
\* Auto-respawn (App.tsx)
\* ------------------------------------------------------------------------

\* blobRef.current before resize() has created the body.
NoBlob == [null |-> TRUE]

RESPAWN_MARGIN == 200

\* The test with the bounds as they are, no margin around them.
inSomeMonitor_noMargin(cx, cy, monitors) ==
  \E k \in 1..Len(monitors) :
    LET m == monitors[k]
    IN  /\ cx >= m.x /\ cx <= m.x + m.width
        /\ cy >= m.y /\ cy <= m.y + m.height

inSomeMonitor(cx, cy, monitors) ==
  \E k \in 1..Len(monitors) :
    LET m == monitors[k]
    IN  /\ cx >= m.x - RESPAWN_MARGIN * PX
        /\ cx <= m.x + m.width + RESPAWN_MARGIN * PX
        /\ cy >= m.y - RESPAWN_MARGIN * PX
        /\ cy <= m.y + m.height + RESPAWN_MARGIN * PX

\* Object.assign(target, source): every field of source copied onto target.
ObjectAssign(target, source) ==
  [f \in DOMAIN target \cup DOMAIN source |->
     IF f \in DOMAIN source THEN source[f] ELSE target[f]]

\* The body of the interval callback; rnd is the Math.random() outcome of
\* createBlobState.
autoRespawn(state, monitors, rnd) ==
  IF state = NoBlob \/ monitors = <<>> THEN state
  ELSE IF inSomeMonitor(state.cx, state.cy, monitors) THEN state
  ELSE ObjectAssign(state, createBlobState(monitors[1], DEFAULT_RADIUS * PX, rnd))

\* ------------------------------------------------------------------------
\* The window poller (hooks/useActiveWindow.ts)
\* ------------------------------------------------------------------------

\* intervalMs
POLL_INTERVAL == 500

\* A timer that waits one interval more for every poll in a row that
\* returned the rectangles unchanged.
NextPollDelay_backoff(same) == POLL_INTERVAL * (1 + same)

\* The time from one poll to the next, after `same` polls in a row returned
\* the rectangles unchanged: window.setInterval(poll, intervalMs).
NextPollDelay(same) == POLL_INTERVAL

\* result.map(r => ({x: r.x / dpr, ...})) with dpr = devicePixelRatio || 1
ScaleRects(result, devicePixelRatio) ==
  LET dpr == IF devicePixelRatio = 0 THEN 1 ELSE devicePixelRatio
  IN  [k \in 1..Len(result) |->
         Rect(RDiv(result[k].x, dpr), RDiv(result[k].y, dpr),
              RDiv(result[k].width, dpr), RDiv(result[k].height, dpr))]

\* ------------------------------------------------------------------------
\* Usage data (hooks/useUsage.ts)
\* ------------------------------------------------------------------------

\* pickPrimarySection: "Current session", else "All models", else the first
\* section, else null.
pickPrimarySection(sections) ==
  LET named(n) == {i \in 1 .. Len(sections) : sections[i].name = n}
      first(S) == sections[CHOOSE i \in S : \A j \in S : i <= j]
  IN  IF named("Current session") # {} THEN first(named("Current session"))
      ELSE IF named("All models") # {} THEN first(named("All models"))
      ELSE IF sections # <<>> THEN sections[1]
      ELSE [null |-> TRUE]

\* formatLabel, the pieces of the template string in order.
formatLabel(section) ==
  <<section.percent, "% used">> \o
  (IF section.reset_text # "" THEN <<" - resets ", section.reset_text>> ELSE <<>>)

\* What fetch() hands to setData when get_usage returned result.
usageFetched(data, result) ==
  LET primary == pickPrimarySection(result.sections)
  IN  [planName |-> result.plan_name,
       percent |-> IF primary = [null |-> TRUE] THEN 0 ELSE primary.percent,
       label |-> IF primary = [null |-> TRUE] THEN <<"No data">> ELSE formatLabel(primary),
       sections |-> result.sections,
       error |-> "null"]

\* A catch that starts over from the data of useState.
usageFailed_startsOver(data, e) ==
  [planName |-> "Loading...", percent |-> 0, label |-> <<"Run \"claude auth\" to connect">>,
   sections |-> <<>>,
   error |-> IF e.type = "string" THEN e.value
             ELSE IF e.message # "undefined" THEN e.message ELSE "Unknown error"]

\* What the catch hands to setData when get_usage threw e:
\* typeof e === "string" ? e : e.message ?? "Unknown error"
usageFailed(data, e) ==
  [data EXCEPT !.error = IF e.type = "string" THEN e.value
                         ELSE IF e.message # "undefined" THEN e.message
                         ELSE "Unknown error",
               !.label = <<"Run \"claude auth\" to connect">>]

\* ------------------------------------------------------------------------
\* One usage fetch (scraper/scrape-usage.js main, ClaudeUsageTray/Program.cs
\* FetchUsage)
\* ------------------------------------------------------------------------

\* A fetch is at one of the awaits of main / FetchUsage: the refresh of an
\* expired token, the usage request, the refresh after a rejection, the
\* retried usage request; or it is done.  log keeps the requests and their
\* answers in order, usageRequests and refreshes count the requests sent.
\* outcome is "data" (usage.json written, ApplyUsageData) or "error" (the
\* error record of main().catch, ShowError).
FetchEnded(f, outcome) == [f EXCEPT !.pc = "done", !.outcome = outcome]

RefreshSent(f, pc) ==
  [f EXCEPT !.pc = pc, !.refreshes = @ + 1, !.log = Append(@, "refresh")]

UsageSent(f, pc) ==
  [f EXCEPT !.pc = pc, !.usageRequests = @ + 1, !.log = Append(@, "usage")]

\* main / FetchUsage up to the first await.  creds: the credentials file is
\* "unreadable", holds "noToken", a token that is "expired" (expiresAt less
\* than a minute away), or one that is "valid".
fetchStarted(program, creds) ==
  LET f == [pc |-> "start", program |-> program, usageRequests |-> 0,
            refreshes |-> 0, log |-> <<>>, outcome |-> "none"]
  IN  IF creds \in {"unreadable", "noToken"} THEN FetchEnded(f, "error")
      ELSE IF creds = "expired" THEN RefreshSent(f, "refreshExpired")
      ELSE UsageSent(f, "fetchUsage")

\* refreshToken / RefreshAndGetTokenAsync from the answer of the token
\* endpoint on: anything but success throws, success goes on to the usage
\* request that follows in main / FetchUsage.
refreshAnswered(f, answer) ==
  LET g == [f EXCEPT !.log = Append(@, answer)]
  IN  IF answer # "200" THEN FetchEnded(g, "error")
      ELSE UsageSent(g, IF f.pc = "refreshExpired" THEN "fetchUsage" ELSE "fetchUsageAgain")

\* fetchUsage / FetchUsageApiAsync gave null: 401 or 403, and in the
\* scraper also a 200 whose body is the JSON null.
Rejected(f, answer) ==
  \/ answer \in {"401", "403"}
  \/ f.program = "scraper" /\ answer = "200 null"

\* The retry that does not give up: every rejection is answered by a
\* refresh and another request.
usageAnswered_again(f, answer) ==
  LET g == [f EXCEPT !.log = Append(@, answer)]
  IN  IF Rejected(f, answer) THEN RefreshSent(g, "refreshRejected")
      ELSE IF answer = "200 object" THEN FetchEnded(g, "data")
      ELSE FetchEnded(g, "error")

\* main / FetchUsage from the answer of the usage endpoint on.  A first
\* rejection refreshes the token, a second one throws; an object is
\* transformed and saved; any other status, a failed request, and in the
\* tray a null body (TryGetProperty on it throws) end in the error record.
usageAnswered(f, answer) ==
  LET g == [f EXCEPT !.log = Append(@, answer)]
  IN  IF Rejected(f, answer)
      THEN IF f.pc = "fetchUsage" THEN RefreshSent(g, "refreshRejected")
           ELSE FetchEnded(g, "error")
      ELSE IF answer = "200 object" THEN FetchEnded(g, "data")
      ELSE FetchEnded(g, "error")

\* ------------------------------------------------------------------------
\* Denominators: the divisor of every division a routine evaluates, as
\* records [at, d].  Lengths keep the model's unit except where the source
\* falls back to 0.001, a tenth of a unit: those are counted in tenths of a
\* unit.  A division behind a guard is listed only when the guard lets it
\* run.
\* ------------------------------------------------------------------------

\* v || e
OrElse(v, e) == IF v = 0 THEN e ELSE v

\* The spring length as it is, without the fallback.
relaxSpringDenominator_bare(nodes, spring) ==
  [at |-> "relaxSpring",
   d |-> 10 * Hypot(nodes[spring.b].x - nodes[spring.a].x,
                    nodes[spring.b].y - nodes[spring.a].y)]

\* relaxSpring: const d = Math.sqrt(dx * dx + dy * dy) || 0.001; ... / d
relaxSpringDenominator(nodes, spring) ==
  [at |-> "relaxSpring",
   d |-> OrElse(10 * Hypot(nodes[spring.b].x - nodes[spring.a].x,
                           nodes[spring.b].y - nodes[spring.a].y), 1)]

\* The spring loop: each spring measured on the array the springs before
\* it left.
RECURSIVE RelaxDenominators(_, _, _, _)
RelaxDenominators(nodes, springs, lo, hi) ==
  IF lo > hi THEN {}
  ELSE IF lo = hi THEN {relaxSpringDenominator(nodes, springs[lo])}
  ELSE RelaxDenominators(nodes, springs, lo, (lo + hi) \div 2) \cup
       Let(RelaxAll(nodes, springs, lo, (lo + hi) \div 2),
           LAMBDA moved : RelaxDenominators(moved, springs, (lo + hi) \div 2 + 1, hi))

\* applyCursorStickConstraint: / cursorDist past the early return, and
\* for every node / nodeDist, nodeDist = Math.sqrt(...) || 0.001.
StickDenominators(state) ==
  LET cursorDist == Hypot(state.dragX - state.cx, state.dragY - state.cy)
  IN  IF cursorDist < PX THEN {}
      ELSE {[at |-> "cursorDist", d |-> cursorDist]} \cup
           {[at |-> "nodeDist",
             d |-> OrElse(10 * Hypot(state.nodes[i].x - state.cx,
                                     state.nodes[i].y - state.cy), 1)] : i \in Idx}

\* The constraint iterations from iter on: the springs, the pressure
\* (area = polygonArea(nodes) || 1, here twice the area) and, in a drag,
\* the stick constraint, each on the body the stage before it left.
RECURSIVE LoopDenominators(_, _, _, _)
LoopDenominators(state, pressure, monitor, iter) ==
  IF iter >= CONSTRAINT_ITERS THEN {}
  ELSE
    Let(RelaxAll(state.nodes, state.springs, 1, Len(state.springs)),
        LAMBDA relaxed :
    Let([state EXCEPT !.nodes = applyPressure(relaxed, pressure)],
        LAMBDA s1 :
        RelaxDenominators(state.nodes, state.springs, 1, Len(state.springs))
          \cup {[at |-> "applyPressure",
                 d |-> OrElse(polygonArea2(relaxed), 2 * PX * PX)]}
          \cup (IF s1.moveState = "DRAGGING" THEN StickDenominators(s1) ELSE {})))
    \cup
    Let(ConstraintIter(state, pressure, monitor),
        LAMBDA one : LoopDenominators(one.state, pressure, monitor, iter + 1))

\* The Verlet loop: if (speed > cap * dt) scale = (cap * dt) / speed
IntegrateDenominators(state, dt) ==
  LET cap == IF state.moveState = "FREE" THEN MAX_VELOCITY_FREE ELSE MAX_VELOCITY
      speed(n) == Hypot(RDiv((n.x - n.ox) * DAMPING, 100),
                        RDiv((n.y - n.oy) * DAMPING, 100))
  IN  {[at |-> "speed", d |-> speed(state.nodes[i])] :
         i \in {j \in Idx : speed(state.nodes[j]) > PerTick(cap, dt)}}

\* stepBlob for a non-empty monitor list, stage by stage as StepCore.
StepDenominators(state, dtIn, monitors, rnd) ==
  LET dt == Min2(dtIn, MAX_DT)
      s0 == [state EXCEPT !.breathPhase = @ + RDiv(BREATH_SPEED * dt, 10)]
      clinging == Clinging(state)
      \* the switch on moveState: applyDragForces (cursorSpeed / 5),
      \* getKineticEnergy behind floatTimer <= 0, applyFloatForces
      \* (d = Math.sqrt(...) || 1)
      movement ==
        CASE s0.moveState = "DRAGGING" -> {[at |-> "cursorSpeed / 5", d |-> 5]}
          [] s0.moveState = "FREE" ->
               IF s0.floatTimer - dt <= 0
               THEN {[at |-> "getKineticEnergy", d |-> NODE_COUNT]} ELSE {}
          [] s0.moveState = "FLOATING" ->
               {[at |-> "applyFloatForces",
                 d |-> OrElse(Hypot(s0.targetX - s0.cx, s0.targetY - s0.cy), PX)]}
          [] OTHER -> {}
      \* applyWindowAttraction: the windows the loop does not skip
      attraction(s) ==
        UNION {LET win == s.windows[k]
                   nx == Max2(win.x, Min2(s.cx, win.x + win.width))
                   ny == Max2(win.y, Min2(s.cy, win.y + win.height))
                   dist == Hypot(nx - s.cx, ny - s.cy)
               IN  IF dist < PX \/ dist > ATTRACT_RANGE * PX THEN {}
                   ELSE {[at |-> "dist / ATTRACT_RANGE", d |-> ATTRACT_RANGE],
                         [at |-> "dist", d |-> dist]} : k \in 1 .. Len(s.windows)}
  IN
  Let(MovementLogic(s0, dt, rnd),
      LAMBDA s1 :
  Let(IF clinging THEN applyEdgeAdhesion(s1)
      ELSE IF s1.moveState # "DRAGGING" THEN applyWindowAttraction(s1, dt)
      ELSE s1,
      LAMBDA s3 :
  Let(updateCentroid(Integrate(s3, dt, clinging)),
      LAMBDA s4 :
      movement
        \cup (IF ~clinging /\ s1.moveState # "DRAGGING" THEN attraction(s1) ELSE {})
        \cup IntegrateDenominators(s3, dt)
        \cup {[at |-> "updateCentroid", d |-> NODE_COUNT]}
        \cup LoopDenominators(s4, BreathPressure(s0),
                              ResolveMonitor(s4.cx, s4.cy, monitors), 0))))

\* endDrag: if (throwSpeed > maxThrow) scale = maxThrow / throwSpeed
endDragDenominators(state) ==
  LET throwSpeed == Hypot((state.dragX - state.prevDragX) * 8,
                          (state.dragY - state.prevDragY) * 8)
  IN  IF throwSpeed > MAX_THROW * PX THEN {[at |-> "throwSpeed", d |-> throwSpeed]}
      ELSE {}

\* isPointInPolygon: past the bounding box, expandPolygon (/ nodes.length,
\* d = Math.sqrt(...) || 1) and the edges whose ends lie on either side of
\* py (/ (yj - yi), behind the && of the test).
isPointInPolygonDenominators(px, py, nodes, padding) ==
  LET outsideBox ==
        \/ \A i \in Idx : px < nodes[i].x - padding
        \/ \A i \in Idx : px > nodes[i].x + padding
        \/ \A i \in Idx : py < nodes[i].y - padding
        \/ \A i \in Idx : py > nodes[i].y + padding
      cx == RDiv(SumX(nodes), NODE_COUNT)
      cy == RDiv(SumY(nodes), NODE_COUNT)
      poly == IF padding > 0 THEN expandPolygon(nodes, padding) ELSE nodes
  IN  IF padding > 0 /\ outsideBox THEN {}
      ELSE (IF padding > 0
            THEN {[at |-> "nodes.length", d |-> NODE_COUNT]} \cup
                 {[at |-> "expandPolygon",
                   d |-> OrElse(Hypot(nodes[i].x - cx, nodes[i].y - cy), PX)] : i \in Idx}
            ELSE {})
           \cup
           {[at |-> "yj - yi",
             d |-> poly[(i + NODE_COUNT - 1) % NODE_COUNT].y - poly[i].y] :
              i \in {k \in Idx : (poly[k].y > py) #
                                 (poly[(k + NODE_COUNT - 1) % NODE_COUNT].y > py)}}

\* ------------------------------------------------------------------------
\* The program as a state machine (App.tsx)
\* ------------------------------------------------------------------------

VARIABLES
  state,      \* the BlobState held in blobRef.current
  monitors,   \* monitorsRef.current
  op,         \* the last operation applied, with its arguments; for a
              \* stepBlob also the forces it applied and the body as it
              \* was before the arrival check
  pre,        \* the BlobState before the last operation
  resolved,   \* the monitor the last stepBlob resolved
  passes,     \* the collision passes the last stepBlob made
  created,    \* the BlobState as createBlobState returned it
  ticks,      \* stepBlob calls so far
  events,     \* mouse and window events so far
  pointer,    \* the pointer positions startDrag and updateDrag delivered in
              \* the current drag, the last two of them
  poller,     \* the window poller: useVisibleWindows' rects, running flag,
              \* timer and calls in flight
  clickThrough, \* useClickThrough: the ignoring ref, the window's flag, the
              \* polls in flight, the timer's bookkeeping
  usage,      \* useUsage: its data and the get_usage calls in flight
  app,        \* App: the get_monitors call, monitorsReady, the frame loop
  fetch       \* one usage fetch of the scraper or the tray

vars == <<state, monitors, op, pre, resolved, passes, created, ticks, events,
          pointer, poller, clickThrough, usage, app, fetch>>

MaxTicks == 2
MaxEvents == 3

Bools == {TRUE, FALSE}

\* The monitor layout: two displays side by side, the blob spawns on the
\* first.
MonitorA == Rect(0, 0, 120 * PX, 110 * PX)
MonitorB == Rect(120 * PX, 0, 100 * PX, 110 * PX)
MonitorLists == {<<MonitorA, MonitorB>>}

\* Window snapshots delivered by the poller: a thin window across the right
\* side of the spawn position (the blob's rightmost node comes to lie on its
\* horizontal midline), a maximised window.
WinSide == Rect(70 * PX, 41 * PX, 40 * PX, 848)
WinFull == Rect(0, 0, 120 * PX, 110 * PX)
WindowLists == {<<WinSide>>, <<WinFull>>}

\* Frame times in ms: a 50 Hz frame, a frame hitch (above MAX_DT).
Dts == {20, 80}

\* Outcomes of the Math.random() calls of one tick: walk (< 0.003),
\* dir (< 0.5), stop (< 0.002).  Only the calls the tick makes are drawn.
NoRnd == [walk |-> FALSE, dir |-> FALSE, stop |-> FALSE]
RndsFor(s) ==
  IF s.moveState = "IDLE" /\ s.windows # <<>>
  THEN {NoRnd, [walk |-> TRUE, dir |-> TRUE, stop |-> FALSE],
               [walk |-> TRUE, dir |-> FALSE, stop |-> FALSE]}
  ELSE IF s.moveState = "WALKING"
  THEN {NoRnd, [walk |-> FALSE, dir |-> FALSE, stop |-> TRUE]}
  ELSE {NoRnd}

\* Pointer positions of mouse events, <<clientX, clientY>>: on the spawned
\* blob, left of every monitor, at the far right.
Pointers == {<<65 * PX, 45 * PX>>, <<-50 * PX, 20 * PX>>, <<215 * PX, 60 * PX>>}

\* The poller before useVisibleWindows is mounted.
Unmounted == [running |-> FALSE, rects |-> <<>>, now |-> 0, polls |-> <<>>,
              pending |-> 0, same |-> 0]

\* The hooks App mounts.  useClickThrough: mounted, the window
\* click-through as Rust made it, no poll yet.  useUsage: the data of
\* useState, no call in flight.  No usage fetch of the scraper or the tray
\* under way.
MountedHooks ==
  /\ clickThrough = [running |-> TRUE, ignoring |-> TRUE, windowIgnores |-> TRUE,
                     awaitingCursor |-> 0, awaitingSet |-> <<>>, sampled |-> "none",
                     unchangedCount |-> 0, lastOverBlob |-> FALSE,
                     currentInterval |-> 33, polls |-> 0,
                     failed |-> FALSE]
  /\ usage = [data |-> [planName |-> "Loading...", percent |-> 0, label |-> <<"Loading...">>,
                        sections |-> <<>>, error |-> "null"],
              inFlight |-> 0, fetches |-> 0, mounted |-> TRUE]
  /\ fetch = [pc |-> "idle"]

\* The hooks of a running App: the monitors fetched, the frame loop
\* scheduled.
HooksInit ==
  /\ MountedHooks
  /\ app = [get_monitors |-> "settled", monitorsReady |-> TRUE, loop |-> "scheduled"]

\* resize(): blobRef.current = createBlobState(monitorsRef.current[0])
Created(ms, radius, rnd) ==
  /\ monitors = ms
  /\ state = createBlobState(ms[1], radius, rnd)
  /\ op = [name |-> "create", monitor |-> ms[1], radius |-> radius]
  /\ pre = state
  /\ resolved = ms[1]
  /\ passes = <<>>
  /\ created = state
  /\ ticks = 0
  /\ events = 0
  /\ pointer = <<>>
  /\ poller = Unmounted
  /\ HooksInit

Init ==
  \E ms \in MonitorLists, rnd \in Bools : Created(ms, DEFAULT_RADIUS * PX, rnd)

\* frame(): stepBlob(state, dt, monitorsRef.current) with the frame time dt
\* and the random outcomes rnd.
Frame(dt, rnd) ==
  \E r \in {StepCore(state, dt, monitors, rnd)} :
    /\ state' = r.state
    /\ resolved' = r.monitor
    /\ passes' = r.passes
    /\ op' = [name |-> "step", dt |-> dt, settled |-> r.settled,
              adhesion |-> r.adhesion, gravity |-> r.gravity]
    /\ pre' = state
    /\ ticks' = ticks + 1
    /\ UNCHANGED <<monitors, created, events, pointer, poller,
               clickThrough, usage, app, fetch>>

Step ==
  /\ ticks < MaxTicks
  /\ \E dt \in Dts : \E rnd \in RndsFor(state) : Frame(dt, rnd)

\* stepBlob(state, dt, []) : the call with an empty monitor list.
StepNoMonitors ==
  /\ ticks < MaxTicks
  /\ \E dt \in Dts : state' = stepBlob(state, dt, <<>>, NoRnd)
  /\ op' = [name |-> "stepEmpty"]
  /\ pre' = state
  /\ passes' = <<>>
  /\ ticks' = ticks + 1
  /\ UNCHANGED <<monitors, resolved, created, events, pointer, poller,
               clickThrough, usage, app, fetch>>

\* handleMouseDown: a press that hits the blob starts a drag; a press that
\* misses it changes nothing.
MouseDown(p) ==
  /\ isPointInPolygon(p[1], p[2], state.nodes, HIT_PADDING * PX)
  /\ state' = startDrag(state, p[1], p[2])
  /\ op' = [name |-> "startDrag", x |-> p[1], y |-> p[2]]
  /\ pre' = state
  /\ events' = events + 1
  /\ pointer' = <<p>>
  /\ UNCHANGED <<monitors, resolved, passes, created, ticks, poller,
               clickThrough, usage, app, fetch>>

\* handleMouseMove
MouseMove(p) ==
  /\ isDragging(state)
  /\ state' = updateDrag(state, p[1], p[2])
  /\ op' = [name |-> "updateDrag", x |-> p[1], y |-> p[2]]
  /\ pre' = state
  /\ events' = events + 1
  /\ pointer' = <<pointer[Len(pointer)], p>>
  /\ UNCHANGED <<monitors, resolved, passes, created, ticks, poller,
               clickThrough, usage, app, fetch>>

\* handleMouseUp
MouseUp ==
  /\ isDragging(state)
  /\ state' = endDrag(state)
  /\ op' = [name |-> "endDrag"]
  /\ pre' = state
  /\ events' = events + 1
  /\ UNCHANGED <<monitors, resolved, passes, created, ticks, pointer, poller,
               clickThrough, usage, app, fetch>>

\* The effect on visibleWindows: setWindows(state, visibleWindows)
WindowsChanged(ws) ==
  /\ state' = setWindows(state, ws)
  /\ op' = [name |-> "setWindows"]
  /\ pre' = state
  /\ events' = events + 1
  /\ UNCHANGED <<monitors, resolved, passes, created, ticks, pointer, poller,
               clickThrough, usage, app, fetch>>

Mouse ==
  /\ events < MaxEvents
  /\ \/ \E p \in Pointers : MouseDown(p)
     \/ \E p \in Pointers : MouseMove(p)
     \/ MouseUp

Windows ==
  /\ events < MaxEvents
  /\ \E ws \in WindowLists : WindowsChanged(ws)

Next == Step \/ StepNoMonitors \/ Mouse \/ Windows

Spec == Init /\ [][Next]_vars

\* ------------------------------------------------------------------------
\* A thrown or dropped blob left alone: the events all come before the first
\* frame, then the frames run at the largest frame time until the blob is
\* idle again.
\* ------------------------------------------------------------------------

MaxLongTicks == 130

LongStep ==
  /\ ticks < MaxLongTicks
  /\ state.moveState \in {"FREE", "FLOATING"}
  /\ Frame(MAX_DT, NoRnd)

LongNext ==
  \/ ticks = 0 /\ Mouse
  \/ ticks = 0 /\ Windows
  \/ LongStep

SpecLong == Init /\ [][LongNext]_vars

\* ------------------------------------------------------------------------
\* A collapsed body: all nodes of a created body put on one point.
\* ------------------------------------------------------------------------

MaxCollapsedTicks == 4

CollapsePoints == {<<60 * PX, 42 * PX>>, <<20 * PX, 20 * PX>>, <<100 * PX, 90 * PX>>,
                   <<60 * PX, 109 * PX>>, <<150 * PX, 50 * PX>>}

Collapsed(s, p) ==
  [s EXCEPT !.nodes = [i \in Idx |-> [x |-> p[1], y |-> p[2], ox |-> p[1], oy |-> p[2]]],
            !.cx = p[1], !.cy = p[2]]

InitCollapsed ==
  /\ monitors \in MonitorLists
  /\ created = createBlobState(monitors[1], DEFAULT_RADIUS * PX, TRUE)
  /\ \E p \in CollapsePoints : state = Collapsed(created, p)
  /\ op = [name |-> "collapse"]
  /\ pre = state
  /\ resolved = monitors[1]
  /\ passes = <<>>
  /\ ticks = 0
  /\ events = 0
  /\ pointer = <<>>
  /\ poller = Unmounted
  /\ HooksInit

CollapsedStep ==
  /\ ticks < MaxCollapsedTicks
  /\ \E dt \in Dts : Frame(dt, NoRnd)

SpecCollapsed == InitCollapsed /\ [][CollapsedStep]_vars

\* ------------------------------------------------------------------------
\* createBlobState on its own, over monitors and radii.
\* ------------------------------------------------------------------------

CreateMonitors ==
  {Rect(0, 0, 1920 * PX, 1080 * PX)} \cup
  {Rect(x, y, w, h) : x \in {0, -1280 * PX, 1920 * PX}, y \in {0, 200 * PX},
                      w \in {120 * PX, 1280 * PX}, h \in {110 * PX}}

CreateRadii == {20 * PX, DEFAULT_RADIUS * PX, 36 * PX, 5050}

InitCreate ==
  \E m \in CreateMonitors, r \in CreateRadii, rnd \in Bools : Created(<<m>>, r, rnd)

\* The blob is created anew (resize() on a new page, the respawn).
Create ==
  \E m \in CreateMonitors, r \in CreateRadii, rnd \in Bools :
    /\ monitors' = <<m>>
    /\ state' = createBlobState(m, r, rnd)
    /\ created' = state'
    /\ op' = [name |-> "create", monitor |-> m, radius |-> r]
    /\ pre' = state'
    /\ resolved' = m
    /\ passes' = <<>>
    /\ UNCHANGED <<ticks, events, pointer, poller,
               clickThrough, usage, app, fetch>>

SpecCreate == InitCreate /\ [][Create]_vars

\* ------------------------------------------------------------------------
\* A blob among windows that open, move and close: window events and frames
\* only, no pointer.  Each window puts one of its sides on the spawned blob,
\* with both corners of that side half a pixel from the centroid, so that a
\* walk in either direction reaches a corner.
\* ------------------------------------------------------------------------

MaxWalkTicks == 2
MaxWalkEvents == 2

\* No window, a window below the blob, above it, to its right, to its left.
WalkWindowLists ==
  {<<>>,
   <<Rect(3150, 70 * PX, 57 * PX, 30 * PX)>>,
   <<Rect(3150, 0, 57 * PX, 14 * PX)>>,
   <<Rect(88 * PX, 1350, 30 * PX, 57 * PX)>>,
   <<Rect(2 * PX, 1350, 30 * PX, 57 * PX)>>}

WalkNext ==
  \/ /\ events < MaxWalkEvents
     /\ \E ws \in WalkWindowLists : WindowsChanged(ws)
  \/ /\ ticks < MaxWalkTicks
     /\ \E dt \in Dts : \E rnd \in RndsFor(state) : Frame(dt, rnd)

SpecWalk == Init /\ [][WalkNext]_vars

\* ------------------------------------------------------------------------
\* The safety check on its own, over bodies put anywhere around the
\* monitors: an idle body and a dragged one with a window in sight, the
\* centroid inside the monitors, on the limit of the margin and one unit
\* beyond it; no body yet; no monitor yet.
\* ------------------------------------------------------------------------

InitRespawn ==
  LET fresh == createBlobState(MonitorA, DEFAULT_RADIUS * PX, TRUE)
      busy == startDrag(setWindows(fresh, <<WinSide>>), 65 * PX, 45 * PX)
      xs == {-20001, -20000, 60 * PX, 42000, 42001}
      ys == {-20001, -20000, 42 * PX, 31000, 31001}
  IN  /\ monitors \in {<<>>, <<MonitorA, MonitorB>>}
      /\ \/ state = NoBlob
         \/ \E b \in {fresh, busy}, x \in xs, y \in ys :
              state = [b EXCEPT !.nodes = TranslateNodes(@, x - b.cx, y - b.cy),
                                !.cx = x, !.cy = y]
      /\ op = [name |-> "lost"]
      /\ pre = state
      /\ resolved = MonitorA
      /\ passes = <<>>
      /\ created = fresh
      /\ ticks = 0
      /\ events = 0
      /\ pointer = <<>>
      /\ poller = Unmounted
      /\ HooksInit

\* The interval callback fires.
SafetyCheck ==
  /\ \E rnd \in Bools : state' = autoRespawn(state, monitors, rnd)
  /\ op' = [name |-> "safetyCheck"]
  /\ pre' = state
  /\ UNCHANGED <<monitors, resolved, passes, created, ticks, events, pointer, poller,
               clickThrough, usage, app, fetch>>

SpecRespawn == InitRespawn /\ [][SafetyCheck]_vars

\* ------------------------------------------------------------------------
\* The poller at work: mounted, polling on its timer, its calls answered in
\* any order or failing, its rectangles handed to the blob, unmounted.
\* ------------------------------------------------------------------------

MaxPolls == 5

\* What get_visible_window_rects returns, in device pixels: no window, a
\* thin window, a maximised one.  The device pixel ratio: unset, 1, 2.
PollResults == {<<>>, <<Rect(140 * PX, 82 * PX, 80 * PX, 1696)>>,
                <<Rect(0, 0, 240 * PX, 220 * PX)>>}

\* poll(): the call to get_visible_window_rects goes out, unless unmounted.
\* polls keeps the last two polls: when, and after how many unchanged results.
Poll(p) ==
  IF ~p.running THEN p
  ELSE [p EXCEPT !.pending = @ + 1,
                 !.polls = (IF @ = <<>> THEN @ ELSE <<@[Len(@)]>>)
                             \o <<[at |-> p.now, same |-> p.same]>>]

\* The effect runs: poll() at once, then the interval timer.
Mount ==
  /\ ~poller.running /\ poller.polls = <<>>
  /\ poller' = Poll([poller EXCEPT !.running = TRUE])
  /\ UNCHANGED <<state, monitors, op, pre, resolved, passes, created, ticks, events, pointer,
               clickThrough, usage, app, fetch>>

\* The interval timer fires.
PollTimer ==
  /\ poller.running
  /\ poller.now < MaxPolls * POLL_INTERVAL
  /\ poller' = Poll([poller EXCEPT !.now = @ + NextPollDelay(poller.same)])
  /\ UNCHANGED <<state, monitors, op, pre, resolved, passes, created, ticks, events, pointer,
               clickThrough, usage, app, fetch>>

\* A call in flight returns: with rectangles, which become the hook's state
\* and reach the blob through the effect on visibleWindows, or with an error.
PollSettled ==
  /\ poller.pending > 0
  /\ \/ \E result \in PollResults, dpr \in {0, 1, 2} :
          LET rects == ScaleRects(result, dpr)
          IN  IF poller.running
              THEN /\ poller' = [poller EXCEPT !.pending = @ - 1, !.rects = rects,
                                   !.same = IF rects = poller.rects THEN @ + 1 ELSE 0]
                   /\ state' = setWindows(state, rects)
                   /\ op' = [name |-> "setWindows"]
                   /\ pre' = state
              ELSE /\ poller' = [poller EXCEPT !.pending = @ - 1]
                   /\ UNCHANGED <<state, op, pre>>
     \/ /\ poller' = [poller EXCEPT !.pending = @ - 1]
        /\ UNCHANGED <<state, op, pre>>
  /\ UNCHANGED <<monitors, resolved, passes, created, ticks, events, pointer,
               clickThrough, usage, app, fetch>>

\* The effect's cleanup.
Unmount ==
  /\ poller.running
  /\ poller' = [poller EXCEPT !.running = FALSE]
  /\ UNCHANGED <<state, monitors, op, pre, resolved, passes, created, ticks, events, pointer,
               clickThrough, usage, app, fetch>>

PollNext == Mount \/ PollTimer \/ PollSettled \/ Unmount

SpecPoll == Init /\ [][PollNext]_vars

\* ------------------------------------------------------------------------
\* The dividing routines on their own, over bodies in every mode: a spawned
\* body and bodies with all nodes on one point; idle, floating with the
\* centroid on the target, dragged with the cursor on the centroid and no
\* pointer displacement, dragged with the pointer jerked away, thrown.
\* Frames of 0 ms (two frames with one timestamp) and 20 ms.
\* ------------------------------------------------------------------------

MaxDivideTicks == 2

InitDivide ==
  LET fresh == createBlobState(MonitorA, DEFAULT_RADIUS * PX, TRUE)
      held(b) == startDrag(b, b.cx, b.cy)
  IN  /\ monitors = <<MonitorA, MonitorB>>
      /\ created = fresh
      /\ \E b \in {fresh, Collapsed(fresh, <<60 * PX, 42 * PX>>),
                   Collapsed(fresh, <<60 * PX, 109 * PX>>)},
            ws \in {<<>>, <<WinSide>>} :
           state \in {setWindows(b, ws),
                      [b EXCEPT !.windows = ws, !.moveState = "FLOATING",
                                !.targetX = b.cx, !.targetY = b.cy],
                      held([b EXCEPT !.windows = ws]),
                      updateDrag(held([b EXCEPT !.windows = ws]), -50 * PX, 20 * PX),
                      endDrag(held([b EXCEPT !.windows = ws]))}
      /\ op = [name |-> "body", denominators |-> {}]
      /\ pre = state
      /\ resolved = MonitorA
      /\ passes = <<>>
      /\ ticks = 0
      /\ events = 0
      /\ pointer = <<>>
      /\ poller = Unmounted
      /\ HooksInit

\* frame(), handleMouseUp and handleMouseDown (at the centroid, beside the
\* body, far from it), each with the denominators it evaluated.
DivideNext ==
  \/ /\ ticks < MaxDivideTicks
     /\ \E dt \in {0, 20} :
          /\ state' = stepBlob(state, dt, monitors, NoRnd)
          /\ op' = [name |-> "step", dt |-> dt,
                    denominators |-> StepDenominators(state, dt, monitors, NoRnd)]
     /\ pre' = state
     /\ ticks' = ticks + 1
     /\ UNCHANGED <<monitors, resolved, passes, created, events, pointer, poller,
               clickThrough, usage, app, fetch>>
  \/ /\ isDragging(state)
     /\ state' = endDrag(state)
     /\ op' = [name |-> "endDrag", denominators |-> endDragDenominators(state)]
     /\ pre' = state
     /\ UNCHANGED <<monitors, resolved, passes, created, ticks, events, pointer, poller,
               clickThrough, usage, app, fetch>>
  \/ /\ events < 1
     /\ \E p \in {<<state.cx, state.cy>>, <<state.cx + 30 * PX, state.cy + 3 * PX>>,
                  <<215 * PX, 60 * PX>>} :
          /\ state' = IF isPointInPolygon(p[1], p[2], state.nodes, HIT_PADDING * PX)
                      THEN startDrag(state, p[1], p[2]) ELSE state
          /\ op' = [name |-> "mouseDown", x |-> p[1], y |-> p[2],
                    denominators |-> isPointInPolygonDenominators(
                                       p[1], p[2], state.nodes, HIT_PADDING * PX)]
     /\ pre' = state
     /\ events' = events + 1
     /\ UNCHANGED <<monitors, resolved, passes, created, ticks, pointer, poller,
               clickThrough, usage, app, fetch>>

SpecDivide == InitDivide /\ [][DivideNext]_vars

\* ------------------------------------------------------------------------
\* useClickThrough at work beside a resting blob: the interval timer starts
\* polls, each poll awaits the cursor position and, when the hover changed,
\* the window call; the awaited calls return in any order, or fail.
\* ------------------------------------------------------------------------

MaxCursorPolls == 3
CLICK_PADDING == 15

\* What get_cursor_position returns, in device pixels: on the spawned blob
\* at either pixel ratio, beside it, far from it.
CursorPositions == {<<65 * PX, 45 * PX>>, <<130 * PX, 90 * PX>>, <<215 * PX, 60 * PX>>}

\* The end of poll(), after the window call if one was made: the count of
\* unchanged samples and the interval that goes with it.
pollTail(c, overBlob) ==
  IF overBlob = c.lastOverBlob
  THEN [c EXCEPT !.unchangedCount = @ + 1,
                 !.currentInterval = IF c.unchangedCount + 1 > 30 THEN 500 ELSE 33,
                 !.lastOverBlob = overBlob]
  ELSE [c EXCEPT !.unchangedCount = 0, !.currentInterval = 33,
                 !.lastOverBlob = overBlob]

\* The seq without its i-th element.
Without(seq, i) == SubSeq(seq, 1, i - 1) \o SubSeq(seq, i + 1, Len(seq))

ClickNext ==
  \* the timer fires: poll() up to its first await
  \/ /\ clickThrough.polls < MaxCursorPolls
     /\ clickThrough' = IF clickThrough.running
                        THEN [clickThrough EXCEPT !.awaitingCursor = @ + 1, !.polls = @ + 1]
                        ELSE [clickThrough EXCEPT !.polls = @ + 1]
     /\ UNCHANGED <<state, monitors, op, pre, resolved, passes, created, ticks, events,
                    pointer, poller, usage, app, fetch>>
  \* get_cursor_position returns: poll() up to its next await or its end
  \/ /\ clickThrough.awaitingCursor > 0
     /\ \E pos \in CursorPositions, dpr \in {0, 1, 2} :
          LET c == [clickThrough EXCEPT !.awaitingCursor = @ - 1]
              overBlob == isPointInPolygon(RDiv(pos[1], OrElse(dpr, 1)),
                                           RDiv(pos[2], OrElse(dpr, 1)),
                                           state.nodes, CLICK_PADDING * PX)
              seen == [c EXCEPT !.sampled = IF overBlob THEN "over" ELSE "off"]
          IN  clickThrough' =
                IF ~c.running \/ state = NoBlob THEN c
                ELSE IF overBlob /\ c.ignoring
                THEN [seen EXCEPT !.awaitingSet = Append(@, FALSE)]
                ELSE IF ~overBlob /\ ~c.ignoring
                THEN [seen EXCEPT !.awaitingSet = Append(@, TRUE)]
                ELSE pollTail(seen, overBlob)
     /\ UNCHANGED <<state, monitors, op, pre, resolved, passes, created, ticks, events,
                    pointer, poller, usage, app, fetch>>
  \* setIgnoreCursorEvents(ignore) returns: the window has taken the flag,
  \* poll() sets the ref and runs to its end
  \/ /\ \E i \in 1 .. Len(clickThrough.awaitingSet) :
          LET ignore == clickThrough.awaitingSet[i]
          IN  clickThrough' =
                pollTail([clickThrough EXCEPT !.awaitingSet = Without(@, i),
                                              !.windowIgnores = ignore,
                                              !.ignoring = ignore], ~ignore)
     /\ UNCHANGED <<state, monitors, op, pre, resolved, passes, created, ticks, events,
                    pointer, poller, usage, app, fetch>>
  \* an awaited call fails: the catch ends the poll
  \/ /\ \/ /\ clickThrough.awaitingCursor > 0
           /\ clickThrough' = [clickThrough EXCEPT !.awaitingCursor = @ - 1,
                                                   !.failed = TRUE]
        \/ \E i \in 1 .. Len(clickThrough.awaitingSet) :
             clickThrough' = [clickThrough EXCEPT !.awaitingSet = Without(@, i),
                                                  !.failed = TRUE]
     /\ UNCHANGED <<state, monitors, op, pre, resolved, passes, created, ticks, events,
                    pointer, poller, usage, app, fetch>>
  \* the effect's cleanup
  \/ /\ clickThrough.running
     /\ clickThrough' = [clickThrough EXCEPT !.running = FALSE]
     /\ UNCHANGED <<state, monitors, op, pre, resolved, passes, created, ticks, events,
                    pointer, poller, usage, app, fetch>>

SpecClick == Init /\ [][ClickNext]_vars

\* ------------------------------------------------------------------------
\* useUsage at work: fetch() at the mount and on the timer, the get_usage
\* calls returning in any order with a usage report, or throwing a string,
\* an Error, or an object without a message; the unmount.
\* ------------------------------------------------------------------------

MaxFetches == 3

UsageNext ==
  \* fetch() up to its await
  \/ /\ usage.fetches < MaxFetches
     /\ usage' = [usage EXCEPT !.fetches = @ + 1, !.inFlight = @ + 1]
     /\ UNCHANGED <<state, monitors, op, pre, resolved, passes, created, ticks, events,
                    pointer, poller, clickThrough, app, fetch>>
  \* get_usage returns
  \/ /\ usage.inFlight > 0
     /\ \E plan \in {"Pro Plan", "Max Plan"},
           sections \in
             {<<>>,
              <<[name |-> "Current session", percent |-> 42, reset_text |-> "in 2h 5m"],
                [name |-> "All models", percent |-> 17, reset_text |-> ""]>>,
              <<[name |-> "Opus only", percent |-> 3, reset_text |-> ""],
                [name |-> "All models", percent |-> 80, reset_text |-> "in 3h 0m"]>>,
              <<[name |-> "Sonnet only", percent |-> 0, reset_text |-> ""]>>} :
          LET result == [plan_name |-> plan, sections |-> sections]
          IN  /\ usage' = IF usage.mounted
                          THEN [usage EXCEPT !.inFlight = @ - 1,
                                             !.data = usageFetched(@, result)]
                          ELSE [usage EXCEPT !.inFlight = @ - 1]
              /\ op' = [name |-> "get_usage returned", result |-> result,
                        mounted |-> usage.mounted, data |-> usage.data]
     /\ UNCHANGED <<state, monitors, pre, resolved, passes, created, ticks, events,
                    pointer, poller, clickThrough, app, fetch>>
  \* get_usage throws
  \/ /\ usage.inFlight > 0
     /\ \E e \in {[type |-> "string", value |-> "No credentials found"],
                  [type |-> "string", value |-> ""],
                  [type |-> "object", message |-> "invoke is not available"],
                  [type |-> "object", message |-> "undefined"]} :
          /\ usage' = IF usage.mounted
                      THEN [usage EXCEPT !.inFlight = @ - 1,
                                         !.data = usageFailed(@, e)]
                      ELSE [usage EXCEPT !.inFlight = @ - 1]
          /\ op' = [name |-> "get_usage threw", e |-> e,
                    mounted |-> usage.mounted, data |-> usage.data]
     /\ UNCHANGED <<state, monitors, pre, resolved, passes, created, ticks, events,
                    pointer, poller, clickThrough, app, fetch>>
  \* the effect's cleanup
  \/ /\ usage.mounted
     /\ usage' = [usage EXCEPT !.mounted = FALSE]
     /\ UNCHANGED <<state, monitors, op, pre, resolved, passes, created, ticks, events,
                    pointer, poller, clickThrough, app, fetch>>

SpecUsage == Init /\ [][UsageNext]_vars

\* ------------------------------------------------------------------------
\* The modes of the blob, end to end: pointer events and a window snapshot
\* before the first frame (no window, or a window along the right of the
\* monitor that reaches below its bottom edge), a few frames while idle,
\* walking or dragged, a release at any moment, then frames at the largest
\* frame time while the blob is Free or Floating, and the safety check once
\* a second (20 frames of 50 ms).
\* ------------------------------------------------------------------------

ModesNext ==
  \/ ticks = 0 /\ Mouse
  \/ /\ ticks = 0 /\ events < MaxEvents
     /\ \E ws \in {<<>>, <<Rect(90 * PX, 0, 30 * PX, 150 * PX)>>} : WindowsChanged(ws)
  \/ /\ ticks < MaxTicks
     /\ state.moveState \in {"IDLE", "WALKING", "DRAGGING"}
     /\ \E rnd \in RndsFor(state) : Frame(MAX_DT, rnd)
  \/ ticks > 0 /\ events < MaxEvents /\ MouseUp
  \/ LongStep
  \/ ticks % 20 = 0 /\ op.name # "safetyCheck" /\ SafetyCheck

SpecModes == Init /\ [][ModesNext]_vars

\* ------------------------------------------------------------------------
\* A blob among windows that overlap or abut: two windows over the right of
\* the spawned blob, sharing a strip or an edge, in either order, or one of
\* them alone.
\* ------------------------------------------------------------------------

MaxOverlapTicks == 2

OverlapNext ==
  \/ /\ events < 1
     /\ \E a \in {Rect(70 * PX, 0, 20 * PX, 110 * PX)},
           b \in {Rect(80 * PX, 0, 40 * PX, 110 * PX), Rect(90 * PX, 0, 30 * PX, 110 * PX)} :
          \E ws \in {<<a, b>>, <<b, a>>, <<a>>, <<b>>} : WindowsChanged(ws)
  \/ /\ ticks < MaxOverlapTicks
     /\ \E dt \in Dts : \E rnd \in RndsFor(state) : Frame(dt, rnd)

SpecOverlap == Init /\ [][OverlapNext]_vars

\* ------------------------------------------------------------------------
\* A walk around one window that stays where it is: the window opens under
\* the spawned blob or to its right before the first frame, then only
\* frames.  Each side of the window is 1 or 2 px longer than the blob is
\* wide, so a walk reaches a corner within a step or two.
\* ------------------------------------------------------------------------

MaxCornerTicks == 4

CornerNext ==
  \/ /\ ticks = 0 /\ events < 1
     /\ \E ws \in {<<Rect(3150, 50 * PX, 57 * PX, 58 * PX)>>,
                   <<Rect(90 * PX, 1350, 58 * PX, 57 * PX)>>} : WindowsChanged(ws)
  \/ /\ ticks < MaxCornerTicks
     /\ \E dt \in Dts : \E rnd \in RndsFor(state) : Frame(dt, rnd)

SpecCorner == Init /\ [][CornerNext]_vars

\* ------------------------------------------------------------------------
\* A released blob whose windows change while it floats: grabbed and let go
\* before the first frame beside a window, left alone through the cooldown,
\* and while it floats to its target the window list is replaced once, by
\* a window that hangs 300 px out of the left of the monitors or by one
\* that hangs out of their bottom.  The safety check runs after the frame
\* in which the blob arrives.
\* ------------------------------------------------------------------------

DriftWindowLists ==
  {<<Rect(-300 * PX, 20 * PX, 400 * PX, 60 * PX)>>,
   <<Rect(0, 60 * PX, 120 * PX, 300 * PX)>>}

DriftNext ==
  \/ ticks = 0 /\ Mouse
  \/ ticks = 0 /\ Windows
  \/ LongStep
  \/ /\ state.moveState = "FLOATING" /\ state.windows \notin DriftWindowLists
     /\ \E ws \in DriftWindowLists : WindowsChanged(ws)
  \/ /\ ticks > 0 /\ state.moveState = "IDLE" /\ op.name = "step"
     /\ SafetyCheck

SpecDrift == Init /\ [][DriftNext]_vars

\* ------------------------------------------------------------------------
\* App from its first render: the get_monitors call is out, there is no
\* body and no monitor.  The call settles with a list, with an empty list
\* or with a failure; the animation effect then runs resize() and asks for
\* the first frame; frames and window changes follow.
\* ------------------------------------------------------------------------

MaxMountTicks == 2

\* What get_monitors resolves with, in device pixels.
MonitorResults == {<<>>, <<MonitorA, MonitorB>>, <<Rect(0, 0, 240 * PX, 220 * PX)>>}

InitMount ==
  /\ monitors = <<>>
  /\ state = NoBlob
  /\ op = [name |-> "render"]
  /\ pre = NoBlob
  /\ resolved = MonitorA
  /\ passes = <<>>
  /\ created = NoBlob
  /\ ticks = 0
  /\ events = 0
  /\ pointer = <<>>
  /\ poller = Unmounted
  /\ MountedHooks
  /\ app = [get_monitors |-> "pending", monitorsReady |-> FALSE, loop |-> "off"]

\* The monitor list is in and React renders again.
MonitorsSettled(ms, how) ==
  /\ app.get_monitors = "pending"
  /\ monitors' = ms
  /\ app' = [app EXCEPT !.get_monitors = "settled", !.monitorsReady = TRUE]
  /\ op' = [name |-> how]
  /\ pre' = state
  /\ UNCHANGED <<state, resolved, passes, created, ticks, events, pointer, poller,
               clickThrough, usage, fetch>>

MountNext ==
  \* .then: monitorsRef.current = rects.map(r => r / dpr)
  \/ \E rects \in MonitorResults, dpr \in {0, 1, 2} :
       MonitorsSettled(ScaleRects(rects, dpr), "then")
  \* .catch: one monitor, the size of the window
  \/ \E inner \in {<<120 * PX, 110 * PX>>} :
       MonitorsSettled(<<Rect(0, 0, inner[1], inner[2])>>, "catch")
  \* the animation effect: resize(), requestAnimationFrame(frame)
  \/ /\ app.monitorsReady /\ app.loop = "off"
     /\ \E rnd \in Bools :
          state' = IF state = NoBlob /\ Len(monitors) > 0
                   THEN createBlobState(monitors[1], DEFAULT_RADIUS * PX, rnd)
                   ELSE state
     /\ created' = state'
     /\ app' = [app EXCEPT !.loop = "scheduled"]
     /\ op' = [name |-> "effect"]
     /\ pre' = state
     /\ UNCHANGED <<monitors, resolved, passes, ticks, events, pointer, poller,
                  clickThrough, usage, fetch>>
  \* frame(now) with a body
  \/ /\ app.loop = "scheduled" /\ state # NoBlob
     /\ ticks < MaxMountTicks
     /\ \E dt \in Dts : \E rnd \in RndsFor(state) : Frame(dt, rnd)
  \* frame(now) without one: stepBlob returns at once, for there is no
  \* monitor either, and state.nodes throws a TypeError; the callback ends
  \* before it asks for the next frame.
  \/ /\ app.loop = "scheduled" /\ state = NoBlob /\ monitors = <<>>
     /\ app' = [app EXCEPT !.loop = "crashed"]
     /\ op' = [name |-> "frame", threw |-> "TypeError"]
     /\ pre' = state
     /\ ticks' = ticks + 1
     /\ UNCHANGED <<monitors, state, resolved, passes, created, events, pointer, poller,
                  clickThrough, usage, fetch>>
  \* the effect on visibleWindows, which needs a body
  \/ /\ state # NoBlob /\ events < 1
     /\ \E ws \in WindowLists : WindowsChanged(ws)

SpecMount == InitMount /\ [][MountNext]_vars

\* ------------------------------------------------------------------------
\* Usage fetches of the scraper and of the tray, one at a time: a fetch
\* starts when none is under way (the scraper is run again, the tray's
\* timer ticks), the endpoints answer each request with a status or the
\* request fails.  Every request sent is answered or fails in the end.
\* ------------------------------------------------------------------------

\* The token endpoint or the usage endpoint answers the request in flight.
Answered ==
  /\ \/ /\ fetch.pc \in {"refreshExpired", "refreshRejected"}
        /\ \E answer \in {"200", "400", "failed"} :
             fetch' = refreshAnswered(fetch, answer)
     \/ /\ fetch.pc \in {"fetchUsage", "fetchUsageAgain"}
        /\ \E answer \in {"200 object", "200 null", "401", "403", "500", "failed"} :
             fetch' = usageAnswered(fetch, answer)
  /\ UNCHANGED <<state, monitors, op, pre, resolved, passes, created, ticks, events,
               pointer, poller, clickThrough, usage, app>>

FetchNext ==
  \/ /\ fetch.pc \in {"idle", "done"}
     /\ \E program \in {"scraper", "tray"},
           creds \in {"unreadable", "noToken", "expired", "valid"} :
          fetch' = fetchStarted(program, creds)
     /\ UNCHANGED <<state, monitors, op, pre, resolved, passes, created, ticks, events,
                  pointer, poller, clickThrough, usage, app>>
  \/ Answered

SpecFetch == Init /\ [][FetchNext]_vars /\ WF_vars(Answered)

\* ------------------------------------------------------------------------
\* Properties
\* ------------------------------------------------------------------------

\* (px, py) within the closed rectangle m.
InRect(px, py, m) ==
  /\ m.x <= px /\ px <= m.x + m.width
  /\ m.y <= py /\ py <= m.y + m.height

\* C1: after every stepBlob call with a non-empty monitor list, every node's
\* position (x, y) and previous position (ox, oy) lie within the closed
\* rectangle of the monitor the call resolved.
C1_Containment ==
  op.name = "step" =>
    \A i \in Idx : /\ InRect(state.nodes[i].x, state.nodes[i].y, resolved)
                   /\ InRect(state.nodes[i].ox, state.nodes[i].oy, resolved)

\* C2: stepBlob called with an empty monitor list leaves the whole BlobState
\* as it was before the call (nodes, centroid, moveState, floatTimer,
\* breathPhase, walk and float bookkeeping, drag bookkeeping), whatever dt.
C2_EmptyMonitorsNoOp ==
  op.name = "stepEmpty" => state = pre

\* An empty-list call made in the middle of a drag, right after the pointer
\* moved (prevDragX / prevDragY differ from dragX / dragY).
C2_Witness ==
  /\ op.name = "stepEmpty"
  /\ isDragging(pre)
  /\ pre.dragX # pre.prevDragX
  /\ ticks >= 2

\* C3: after createBlobState, every sequence of stepBlob, startDrag,
\* updateDrag, endDrag and setWindows calls leaves 14 nodes and the spring
\* list as created: 35 springs, 14 edge (i, i+1), 14 skip (i, i+2) and
\* 7 diameter (i, i+7) ones, with the rest lengths and stiffnesses of creation.
C3_Topology ==
  /\ DOMAIN state.nodes = 0 .. 13
  /\ Len(state.springs) = 35
  /\ \A k \in 1 .. 35 :
       LET sp == state.springs[k]
       IN  sp.b = (sp.a + (IF k <= 14 THEN 1 ELSE IF k <= 28 THEN 2 ELSE 7)) % 14
  /\ state.springs = created.springs

\* A body with windows set that was dragged, released and then stepped, and
\* is deformed since creation.
C3_Witness ==
  /\ op.name = "step"
  /\ state.windows # <<>>
  /\ state.moveState = "FREE"
  /\ \E i \in Idx : state.nodes[i].x - state.nodes[0].x
                      # created.nodes[i].x - created.nodes[0].x

\* C4: immediately after endDrag every node's implicit velocity
\* (x - ox, y - oy) has magnitude at most MAX_THROW = 120 px, however far
\* apart the pointer positions given to startDrag / updateDrag were.
C4_ThrowCap ==
  op.name = "endDrag" =>
    \A i \in Idx :
      Hypot(state.nodes[i].x - state.nodes[i].ox,
            state.nodes[i].y - state.nodes[i].oy) <= MAX_THROW * PX

\* A release after a pointer jump of more than 100 px, eight times which is
\* far above the cap.
C4_Witness ==
  /\ op.name = "endDrag"
  /\ Abs(pre.dragX - pre.prevDragX) > 100 * PX
  /\ \A i \in Idx : Abs(state.nodes[i].x - state.nodes[i].ox) > 100 * PX

\* The bounces of the last stepBlob: <<k, i>> for node i changed by pass k.
Bounces ==
  {b \in (1 .. Len(passes)) \X Idx : passes[b[1]].after[b[2]] # passes[b[1]].before[b[2]]}

\* The implicit velocity of node n.
Vx(n) == n.x - n.ox
Vy(n) == n.y - n.oy

\* Node a is strictly slower than node b (squared speeds; past LargeLen the
\* components are compared one by one).
Slower(a, b) ==
  IF Abs(Vx(a)) <= LargeLen /\ Abs(Vy(a)) <= LargeLen /\
     Abs(Vx(b)) <= LargeLen /\ Abs(Vy(b)) <= LargeLen
  THEN Vx(a) * Vx(a) + Vy(a) * Vy(a) < Vx(b) * Vx(b) + Vy(b) * Vy(b)
  ELSE /\ Abs(Vx(a)) <= Abs(Vx(b)) /\ Abs(Vy(a)) <= Abs(Vy(b))
       /\ (Abs(Vx(a)) < Abs(Vx(b)) \/ Abs(Vy(a)) < Abs(Vy(b)))

\* C5 as stated: whenever a constraint pass bounces a node off a monitor
\* edge or a window face, the node's implicit speed right after the bounce is
\* strictly smaller than right before it, for every nonzero incoming speed.
C5_BounceSlowsStrictly ==
  \A b \in Bounces :
    LET before == passes[b[1]].before[b[2]]
        after == passes[b[1]].after[b[2]]
    IN  (Vx(before) # 0 \/ Vy(before) # 0) => Slower(after, before)

\* C5, amended: a bounce acts on the velocity component along the axis it
\* moves the node on: that component never grows and strictly shrinks when it
\* is not zero, the other component is unchanged.  So the speed never grows,
\* and strictly shrinks exactly when the incoming velocity has a nonzero
\* component normal to the face.
C5_BounceDecay ==
  \A b \in Bounces :
    LET before == passes[b[1]].before[b[2]]
        after == passes[b[1]].after[b[2]]
    IN  /\ IF after.x # before.x
           THEN /\ Abs(Vx(after)) <= Abs(Vx(before))
                /\ Vx(before) # 0 => Abs(Vx(after)) < Abs(Vx(before))
           ELSE after.ox = before.ox
        /\ IF after.y # before.y
           THEN /\ Abs(Vy(after)) <= Abs(Vy(before))
                /\ Vy(before) # 0 => Abs(Vy(after)) < Abs(Vy(before))
           ELSE after.oy = before.oy

\* One tick with two bounces off a window face: one of a node with a nonzero
\* velocity normal to the face, one of a node moving parallel to the face.
C5_Witness ==
  /\ \E b \in Bounces :
       /\ passes[b[1]].mode = "outside"
       /\ passes[b[1]].after[b[2]].y # passes[b[1]].before[b[2]].y
       /\ Vy(passes[b[1]].before[b[2]]) # 0
  /\ \E b \in Bounces :
       /\ passes[b[1]].mode = "outside"
       /\ passes[b[1]].after[b[2]].y # passes[b[1]].before[b[2]].y
       /\ Vy(passes[b[1]].before[b[2]]) = 0
       /\ Vx(passes[b[1]].before[b[2]]) # 0

\* The distances of point (x, y) to the faces of w, in the order top,
\* bottom, left, right.
FaceDistances(x, y, w) ==
  <<y - w.y, w.y + w.height - y, x - w.x, w.x + w.width - x>>

\* The first face, in that order, at the minimum distance.
NearestFace(x, y, w) ==
  LET d == FaceDistances(x, y, w)
  IN  CHOOSE f \in 1 .. 4 : /\ \A g \in 1 .. 4 : d[f] <= d[g]
                            /\ \A g \in 1 .. f - 1 : d[g] > d[f]

\* C8: one pass of constrainWindowWalls over a window whose interior does
\* not contain the cached centroid leaves no node strictly inside the
\* window: a node that was strictly inside lies on the face at minimum
\* distance (ties in the order top, bottom, left, right) with only its
\* coordinate normal to that face changed, and every other node is as before.
C8_PushedOut ==
  \A k \in 1 .. Len(passes) :
    passes[k].mode = "outside" =>
      \A i \in Idx :
        LET w == passes[k].rect
            before == passes[k].before[i]
            after == passes[k].after[i]
            f == NearestFace(before.x, before.y, w)
        IN  /\ ~(w.x < after.x /\ after.x < w.x + w.width /\
                 w.y < after.y /\ after.y < w.y + w.height)
            /\ IF w.x < before.x /\ before.x < w.x + w.width /\
                  w.y < before.y /\ before.y < w.y + w.height
               THEN /\ f = 1 => after.y = w.y
                    /\ f = 2 => after.y = w.y + w.height
                    /\ f = 3 => after.x = w.x
                    /\ f = 4 => after.x = w.x + w.width
                    /\ f \in {1, 2} => after.x = before.x /\ after.ox = before.ox
                    /\ f \in {3, 4} => after.y = before.y /\ after.oy = before.oy
               ELSE after = before

\* A pass over a single window, centroid outside it, that found a node
\* strictly inside at equal distance from the top and the bottom face, and
\* other nodes outside.
C8_Witness ==
  /\ Len(state.windows) = 1
  /\ \E k \in 1 .. Len(passes) :
       /\ passes[k].mode = "outside"
       /\ ~StrictlyInside(passes[k].cx, passes[k].cy, passes[k].rect)
       /\ \E i \in Idx :
            LET n == passes[k].before[i]
                d == FaceDistances(n.x, n.y, passes[k].rect)
            IN  /\ StrictlyInside(n.x, n.y, passes[k].rect)
                /\ d[1] = d[2] /\ d[1] < d[3] /\ d[1] < d[4]
       /\ \E i \in Idx :
            ~StrictlyInside(passes[k].before[i].x, passes[k].before[i].y, passes[k].rect)

\* C6 as stated: with an empty window list and no drag events, a body in
\* Free stays in Free under every stepBlob tick; it never enters Floating and
\* never reaches Idle.
C6_StaysFree ==
  (op.name = "step" /\ pre.moveState = "FREE" /\ pre.windows = <<>>)
    => state.moveState = "FREE"

\* C6, amended: with an empty window list, a tick of a body in Free keeps it
\* in Free, with the cooldown counted down, unless the cooldown has elapsed
\* and the kinetic energy is below the rest threshold; that tick moves it to
\* Floating with the target point and edge left as they were, from where it
\* goes on to Idle once the centroid is within 8 px of that target.
C6_FreeWithoutWindows ==
  (op.name = "step" /\ pre.moveState = "FREE" /\ pre.windows = <<>>) =>
    LET left == pre.floatTimer - Min2(op.dt, MAX_DT)
    IN  IF left <= 0 /\ 10 * getKineticEnergy(pre) < REST_THRESHOLD * PX * PX
        THEN /\ state.moveState \in {"FLOATING", "IDLE"}
             /\ (state.moveState = "FLOATING") <=>
                  (Hypot(state.targetX - state.cx, state.targetY - state.cy)
                     >= ARRIVE_DIST * PX)
             /\ state.targetX = pre.targetX
             /\ state.targetY = pre.targetY
             /\ state.walkEdge = pre.walkEdge
        ELSE state.moveState = "FREE" /\ state.floatTimer = left

\* The tick that takes a released body from Free to Floating with no window
\* known.
C6_Witness ==
  /\ op.name = "step"
  /\ pre.moveState = "FREE"
  /\ pre.windows = <<>>
  /\ state.moveState = "FLOATING"

\* The distance from point (px, py) to the nearest point of rectangle m.
DistanceToRect(px, py, m) ==
  Hypot(px - Max2(m.x, Min2(px, m.x + m.width)),
        py - Max2(m.y, Min2(py, m.y + m.height)))

\* C7: with a window known, a body in Free that keeps being stepped enters
\* Floating and then reaches Idle, wherever the window lies.  A Floating body
\* reaches Idle in the tick that ends with its centroid less than 8 px from
\* the float target, and every tick ends with the nodes, hence the centroid,
\* inside a monitor: so the claim needs every float target to lie less than
\* 8 px from a monitor.
C7_FloatTargetReachable ==
  (state.moveState = "FLOATING" /\ state.windows # <<>>) =>
    \E k \in 1 .. Len(monitors) :
      DistanceToRect(state.targetX, state.targetY, monitors[k]) < ARRIVE_DIST * PX

\* C9: from a body whose nodes all coincide at one point, with no windows
\* and no drag, the polygon area strictly increases from tick to tick over
\* the first ticks.
C9_AreaGrows ==
  (op.name = "step" /\ ticks <= MaxCollapsedTicks) =>
    polygonArea2(state.nodes) > polygonArea2(pre.nodes)

\* C10: createBlobState(monitor, radius) returns a body in Idle with no
\* windows, every node at rest, and the centroid at cx = monitor.x +
\* monitor.width / 2, cy = monitor.y + monitor.height - radius - 40; for the
\* monitor {0, 0, 1920, 1080} and radius 28 that is (960, 1012).
C10_Created ==
  op.name = "create" =>
    /\ state.moveState = "IDLE"
    /\ state.windows = <<>>
    /\ \A i \in Idx : state.nodes[i].ox = state.nodes[i].x /\
                      state.nodes[i].oy = state.nodes[i].y
    /\ 2 * state.cx = 2 * op.monitor.x + op.monitor.width
    /\ state.cy = op.monitor.y + op.monitor.height - op.radius - 40 * PX
    /\ (op.monitor = Rect(0, 0, 1920 * PX, 1080 * PX) /\ op.radius = 28 * PX)
         => (state.cx = 960 * PX /\ state.cy = 1012 * PX)

\* The body created on the 1920 x 1080 monitor with radius 28.
C10_Witness ==
  /\ op.name = "create"
  /\ op.monitor = Rect(0, 0, 1920 * PX, 1080 * PX)
  /\ op.radius = 28 * PX
  /\ state.cx = 960 * PX

\* C11: in a stepBlob tick that starts with an empty window list, a body in
\* Idle does not go to Walking, and a body in Walking ends the tick in Idle
\* with every field as the same tick leaves a body that started it in Idle:
\* the walk translated no node.
C11_NoWalkWithoutWindows ==
  op.name = "step" /\ pre.windows = <<>> =>
    /\ pre.moveState = "IDLE" => state.moveState # "WALKING"
    /\ pre.moveState = "WALKING" =>
         /\ state.moveState = "IDLE"
         /\ state = StepCore([pre EXCEPT !.moveState = "IDLE"], op.dt, monitors, NoRnd).state

\* A body that was walking when the last window closed has taken a tick.
C11_Witness ==
  /\ op.name = "step"
  /\ pre.windows = <<>>
  /\ pre.moveState = "WALKING"
  /\ state.moveState = "IDLE"

\* C12: in a tick of a walking body whose centroid, after the walk
\* translation, has passed a corner of the nearest window (below
\* win.x + radius or above win.x + win.width - radius on top and bottom, the
\* same in y on left and right), the walk edge is the adjacent edge at that
\* corner and the walk direction leads away from the corner: increasing
\* coordinate when the walk came from top or left, decreasing when it came
\* from bottom or right.  From top walking right: edge right, direction +1.
C12_CornerTable ==
  op.name = "step" /\ pre.moveState = "WALKING" /\ pre.windows # <<>> =>
    LET win == nearestWindow(pre)
        along == pre.walkEdge \in {"top", "bottom"}
        step == PerTick(pre.walkSpeed * pre.walkDir, Min2(op.dt, MAX_DT))
        c == IF along THEN RDiv(SumX(pre.nodes), NODE_COUNT) + step
             ELSE RDiv(SumY(pre.nodes), NODE_COUNT) + step
        lo == IF along THEN win.x + pre.radius ELSE win.y + pre.radius
        hi == IF along THEN win.x + win.width - pre.radius
              ELSE win.y + win.height - pre.radius
        away == IF pre.walkEdge \in {"top", "left"} THEN 1 ELSE -1
    IN  /\ c < lo =>
             /\ state.walkEdge = (IF along THEN "left" ELSE "top")
             /\ state.walkDir = away
        /\ c >= lo /\ c > hi =>
             /\ state.walkEdge = (IF along THEN "right" ELSE "bottom")
             /\ state.walkDir = away

\* C13: in every stepBlob tick with a non-empty monitor list either edge
\* adhesion is applied and the integration adds no gravity, or the
\* integration adds the gravity term GRAVITY * dt * dt and adhesion is not
\* applied; adhesion it is exactly when the tick started in Idle or Walking
\* with a non-empty window list.
C13_GravityOrAdhesion ==
  op.name = "step" =>
    /\ op.adhesion <=> pre.moveState \in {"IDLE", "WALKING"} /\ pre.windows # <<>>
    /\ op.adhesion => op.gravity = 0
    /\ ~op.adhesion =>
         op.gravity = RDiv(GRAVITY * Min2(op.dt, MAX_DT) * Min2(op.dt, MAX_DT) * PX, 1000000)
    /\ op.adhesion <=> op.gravity = 0

\* A dragged body with a window in sight has taken a tick under gravity.
C13_Witness ==
  /\ op.name = "step"
  /\ pre.moveState = "DRAGGING"
  /\ pre.windows # <<>>
  /\ ~op.adhesion
  /\ op.gravity > 0

\* C14: after endDrag the body is in Free with the cooldown timer at
\* FLOAT_DELAY, and every node's implicit velocity is 8 times the
\* displacement between the last two pointer positions that startDrag and
\* updateDrag delivered (zero when only startDrag delivered one), scaled
\* down to length MAX_THROW when longer, whatever ticks ran in between.
C14_ThrowIsLastDisplacement ==
  op.name = "endDrag" =>
    LET last == pointer[Len(pointer)]
        vx == (last[1] - pointer[1][1]) * 8
        vy == (last[2] - pointer[1][2]) * 8
        throwSpeed == Hypot(vx, vy)
        capped == throwSpeed > MAX_THROW * PX
        tx == IF capped THEN MulDiv(vx, MAX_THROW * PX, throwSpeed) ELSE vx
        ty == IF capped THEN MulDiv(vy, MAX_THROW * PX, throwSpeed) ELSE vy
    IN  /\ state.moveState = "FREE"
        /\ state.floatTimer = FLOAT_DELAY
        /\ \A i \in Idx : /\ state.nodes[i].x - state.nodes[i].ox = tx
                          /\ state.nodes[i].y - state.nodes[i].oy = ty

\* The float translation of a tick that starts in Floating: applyFloatForces
\* moves position and previous position of every node by one vector, whose
\* length is min(FLOAT_SPEED * dt, distance from the centroid to the target)
\* (to within a unit of rounding per coordinate), and the centroid ends no
\* farther from the target than that distance less that length.
FloatStepExact ==
  LET dt == Min2(op.dt, MAX_DT)
      f == applyFloatForces(pre, dt)
      mx == f.nodes[0].x - pre.nodes[0].x
      my == f.nodes[0].y - pre.nodes[0].y
      dist == Hypot(pre.targetX - pre.cx, pre.targetY - pre.cy)
      len == Min2(PerTick(FLOAT_SPEED, dt), dist)
  IN  /\ f.nodes = TranslateNodes(pre.nodes, mx, my)
      /\ Abs(Hypot(mx, my) - len) <= 2
      /\ Hypot(pre.targetX - (pre.cx + mx), pre.targetY - (pre.cy + my)) <= dist - len + 2

\* The tick ends in Idle exactly when the centroid the constraints left is
\* less than ARRIVE_DIST from the target.
ArrivesWithin ==
  LET near == Hypot(op.settled.targetX - op.settled.cx,
                    op.settled.targetY - op.settled.cy) < ARRIVE_DIST * PX
  IN  state.moveState = (IF near THEN "IDLE" ELSE "FLOATING")

\* The body is the settled body translated as a whole, its centroid
\* 0.6 * radius outside the tracked edge of the window nearest to it.
SnappedToEdge ==
  LET b == op.settled
      win == nearestWindow(b)
      e == b.walkEdge
  IN  /\ state.nodes = TranslateNodes(b.nodes, state.cx - b.cx, state.cy - b.cy)
      /\ e = "top" => state.cy = win.y - Sit(b.radius) /\ state.cx = b.cx
      /\ e = "bottom" => state.cy = win.y + win.height + Sit(b.radius) /\ state.cx = b.cx
      /\ e = "left" => state.cx = win.x - Sit(b.radius) /\ state.cy = b.cy
      /\ e = "right" => state.cx = win.x + win.width + Sit(b.radius) /\ state.cy = b.cy

\* C15 as stated: in a tick that starts in Floating the float translation has
\* length min(80 * dt, distance to the target) and does not pass the target;
\* the tick ends in Idle exactly when the post-constraint centroid is less
\* than 8 from the target, and then the body has been translated so that its
\* centroid lies 0.6 * radius outside the tracked edge of the nearest window.
C15_FloatArrival ==
  op.name = "step" /\ pre.moveState = "FLOATING" =>
    /\ FloatStepExact
    /\ ArrivesWithin
    /\ state.moveState = "IDLE" => state.windows # <<>> /\ SnappedToEdge

\* C15, amended: as stated when the window list is not empty at the arrival;
\* with an empty window list the body goes to Idle where the constraints
\* left it, no node translated.
C15_FloatArrivalOrStay ==
  op.name = "step" /\ pre.moveState = "FLOATING" =>
    /\ FloatStepExact
    /\ ArrivesWithin
    /\ state.moveState = "IDLE" /\ state.windows # <<>> => SnappedToEdge
    /\ state.moveState = "IDLE" /\ state.windows = <<>> =>
         state = [op.settled EXCEPT !.moveState = "IDLE"]

\* A floating body has arrived and has been moved onto the edge of a window.
C15_Witness ==
  /\ op.name = "step"
  /\ pre.moveState = "FLOATING"
  /\ state.moveState = "IDLE"
  /\ state.windows # <<>>
  /\ state.nodes # op.settled.nodes

\* C16: setWindows on a body in Idle or Walking runs computeFloatTarget.  With
\* a non-empty window list the target is then, of the four candidates of the
\* nearest window, one at least as near to the centroid as the others; it
\* lies radius outside the edge walkEdge names, and its coordinate along that
\* edge is within the edge's span, [win.x, win.x + win.width] on top and
\* bottom, [win.y, win.y + win.height] on left and right.  With an empty
\* window list target and walk edge stay as they were.
C16_TargetOnEdge ==
  op.name = "setWindows" /\ pre.moveState \in {"IDLE", "WALKING"} =>
    IF state.windows = <<>>
    THEN state = [pre EXCEPT !.windows = <<>>]
    ELSE
      LET win == nearestWindow(state)
          r == state.radius
          e == state.walkEdge
          cands == FloatCandidates(pre, win)
      IN  /\ \A k \in 1..4 :
               Dist2(state.targetX, state.targetY, pre.cx, pre.cy)
                 <= Dist2(cands[k].x, cands[k].y, pre.cx, pre.cy)
          /\ e = "top" => state.targetY = win.y - r
          /\ e = "bottom" => state.targetY = win.y + win.height + r
          /\ e = "left" => state.targetX = win.x - r
          /\ e = "right" => state.targetX = win.x + win.width + r
          /\ e \in {"top", "bottom"} =>
               win.x <= state.targetX /\ state.targetX <= win.x + win.width
          /\ e \in {"left", "right"} =>
               win.y <= state.targetY /\ state.targetY <= win.y + win.height

\* C17: the safety check replaces every field of the body with those of
\* createBlobState(monitors[0]) (Idle, no windows, every node at rest around
\* the spawn point) if there is a body, the monitor list is not empty and the
\* cached centroid is outside every monitor grown by 200 on each side; in
\* every other case the state is as it was.
C17_Respawn ==
  op.name = "safetyCheck" =>
    IF /\ pre # NoBlob
       /\ monitors # <<>>
       /\ \A k \in 1..Len(monitors) :
            ~InRect(pre.cx, pre.cy,
                    Rect(monitors[k].x - 200 * PX, monitors[k].y - 200 * PX,
                         monitors[k].width + 400 * PX, monitors[k].height + 400 * PX))
    THEN /\ \E rnd \in Bools :
              state = createBlobState(monitors[1], DEFAULT_RADIUS * PX, rnd)
         /\ state.moveState = "IDLE"
         /\ state.windows = <<>>
         /\ state.cx = monitors[1].x + monitors[1].width \div 2
         /\ state.cy = monitors[1].y + monitors[1].height
                         - (DEFAULT_RADIUS + SPAWN_MARGIN) * PX
         /\ \A i \in Idx : /\ state.nodes[i].x = state.nodes[i].ox
                           /\ state.nodes[i].y = state.nodes[i].oy
    ELSE state = pre

\* A dragged body one unit beyond the margin has been replaced.
C17_Witness ==
  /\ op.name = "safetyCheck"
  /\ pre # NoBlob
  /\ pre.moveState = "DRAGGING"
  /\ pre.cx = -20001
  /\ state.moveState = "IDLE"
  /\ state.windows = <<>>

\* C18 as stated: a poll made after two or more polls in a row returned the
\* rectangles unchanged comes later than the base interval after the poll
\* before it, and a poll made right after the rectangles changed comes the
\* base interval after the poll before it.
C18_BacksOff ==
  Len(poller.polls) = 2 =>
    LET gap == poller.polls[2].at - poller.polls[1].at
    IN  /\ poller.polls[2].same >= 2 => gap > POLL_INTERVAL
        /\ poller.polls[2].same = 0 => gap = POLL_INTERVAL

\* C18, amended: every poll of the timer comes exactly the base interval of
\* 500 ms after the poll before it, however many polls in a row returned the
\* rectangles unchanged.
C18_FixedInterval ==
  Len(poller.polls) = 2 =>
    /\ poller.polls[2].at - poller.polls[1].at = POLL_INTERVAL
    /\ POLL_INTERVAL < 1000

\* A poll made after three unchanged results in a row, the base interval
\* after the poll before it.
C18_Witness ==
  /\ Len(poller.polls) = 2
  /\ poller.polls[2].same >= 3
  /\ poller.polls[2].at - poller.polls[1].at = POLL_INTERVAL

\* C19: applyEdgeAdhesion, the walk translation of applyWalkForces, the
\* float translation of applyFloatForces and snapToEdge each leave every
\* node's implicit velocity (x - ox, y - oy) and every offset between two
\* nodes as they were, on every body the program reaches.
C19_RigidTranslations ==
  LET Rigid(a, b) ==
        /\ \A i \in Idx : /\ b[i].x - b[i].ox = a[i].x - a[i].ox
                          /\ b[i].y - b[i].oy = a[i].y - a[i].oy
        /\ \A i, j \in Idx : /\ b[i].x - b[j].x = a[i].x - a[j].x
                             /\ b[i].y - b[j].y = a[i].y - a[j].y
  IN  /\ Rigid(state.nodes, applyEdgeAdhesion(state).nodes)
      /\ \A dt \in Dts : /\ Rigid(state.nodes, applyWalkForces(state, dt, FALSE).nodes)
                         /\ Rigid(state.nodes, applyFloatForces(state, dt).nodes)
      /\ Rigid(state.nodes, snapToEdge(state).nodes)

\* A body in motion, with a window in sight, that each of the four moves.
C19_Witness ==
  /\ state.windows # <<>>
  /\ \E i \in Idx : state.nodes[i].x # state.nodes[i].ox
  /\ applyEdgeAdhesion(state).nodes # state.nodes
  /\ applyWalkForces(state, 20, FALSE).nodes # state.nodes
  /\ applyFloatForces(state, 20).nodes # state.nodes
  /\ snapToEdge(state).nodes # state.nodes

\* C20: in every monitor pass (constrainToBounds) of a tick, a node that was
\* beyond an edge of the monitor is on that edge afterwards, its velocity
\* component normal to the edge is the incoming one reversed and scaled by
\* BOUNCE_DECAY, so that it points into the monitor, and its previous
\* position on that axis is within the monitor.
C20_Reflects ==
  \A k \in 1..Len(passes) : \A i \in Idx :
    LET m == passes[k].rect
        b == passes[k].before[i]
        a == passes[k].after[i]
    IN  passes[k].mode = "inside" /\ m = resolved =>
          /\ b.x < m.x \/ b.x > m.x + m.width =>
               /\ a.x = (IF b.x < m.x THEN m.x ELSE m.x + m.width)
               /\ Vx(a) = -Decay(Vx(b))
               /\ m.x <= a.ox /\ a.ox <= m.x + m.width
          /\ b.y < m.y \/ b.y > m.y + m.height =>
               /\ a.y = (IF b.y < m.y THEN m.y ELSE m.y + m.height)
               /\ Vy(a) = -Decay(Vy(b))
               /\ m.y <= a.oy /\ a.oy <= m.y + m.height

\* C21: no division of stepBlob, endDrag or isPointInPolygon is evaluated
\* with a zero denominator, whatever the body: coincident nodes, no area,
\* the centroid on the float target, the cursor on the centroid, no pointer
\* displacement, a frame of 0 ms.
C21_NoZeroDenominator ==
  \A r \in op.denominators : r.d # 0

\* A 0 ms frame of a dragged body whose nodes all lie on the cursor: the
\* springs and the area fell back on their substitutes, and no speed was
\* divided by.
C21_Witness ==
  /\ op.name = "step" /\ op.dt = 0
  /\ pre.moveState = "DRAGGING"
  /\ pre.dragX = pre.cx /\ pre.dragY = pre.cy
  /\ \A i \in Idx : pre.nodes[i].x = pre.cx /\ pre.nodes[i].y = pre.cy
  /\ [at |-> "relaxSpring", d |-> 1] \in op.denominators
  /\ [at |-> "applyPressure", d |-> 2 * PX * PX] \in op.denominators
  /\ \A r \in op.denominators : r.at # "speed"

\* C22: once no cursor poll is in flight (and none has failed), the window
\* ignores cursor events exactly when the last sampled cursor position was
\* outside the padded blob polygon, however the polls overlapped.
C22_HoverOnly ==
  (/\ clickThrough.running /\ ~clickThrough.failed
   /\ clickThrough.sampled # "none"
   /\ clickThrough.awaitingCursor = 0 /\ clickThrough.awaitingSet = <<>>)
  => (clickThrough.windowIgnores <=> clickThrough.sampled = "off")

\* C23: a failed usage fetch leaves planName, percent and sections as they
\* were and sets error to a message; a successful one replaces planName,
\* percent, label and sections by those of the report and sets error to
\* null.
C23_StaleOnFailure ==
  /\ (op.name = "get_usage threw" /\ op.mounted) =>
       /\ usage.data.planName = op.data.planName
       /\ usage.data.percent = op.data.percent
       /\ usage.data.sections = op.data.sections
       /\ usage.data.error # "null"
  /\ (op.name = "get_usage returned" /\ op.mounted) =>
       /\ usage.data.planName = op.result.plan_name
       /\ usage.data.sections = op.result.sections
       /\ usage.data.percent \in
            {0} \cup {op.result.sections[i].percent : i \in 1 .. Len(op.result.sections)}
       /\ (\E i \in 1 .. Len(op.result.sections) :
              op.result.sections[i].name = "Current session") =>
            \E i \in 1 .. Len(op.result.sections) :
              /\ op.result.sections[i].name = "Current session"
              /\ usage.data.percent = op.result.sections[i].percent
              /\ usage.data.label[1] = usage.data.percent
       /\ usage.data.error = "null"

\* A fetch failed after one that had brought a report with sections: the
\* report is still there, with the error beside it.
C23_Witness ==
  /\ op.name = "get_usage threw" /\ op.mounted
  /\ op.data.error = "null" /\ op.data.sections # <<>>
  /\ usage.data.sections = op.data.sections
  /\ usage.data.planName = "Max Plan"
  /\ usage.data.error = "Unknown error"

\* C24: a released body leaves Free no earlier than the 100th tick after
\* endDrag, and only in a tick that finds the cooldown elapsed (the timer at
\* or below 0 once the clamped frame time is taken off) and the mean squared
\* node displacement below 1.5.  Until then every tick takes the clamped
\* frame time off the cooldown that endDrag set to 5 s.
C24_Cooldown ==
  /\ (op.name = "step" /\ pre.moveState = "FREE" /\ op.settled.moveState # "FREE") =>
       /\ ticks >= 100
       /\ op.settled.moveState = "FLOATING"
       /\ pre.floatTimer - Min2(op.dt, MAX_DT) <= 0
       /\ 10 * getKineticEnergy(pre) < REST_THRESHOLD * PX * PX
  /\ (op.name = "step" /\ pre.moveState = "FREE" /\ op.settled.moveState = "FREE") =>
       /\ state.floatTimer = pre.floatTimer - Min2(op.dt, MAX_DT)
       /\ state.floatTimer >= FLOAT_DELAY - MAX_DT * ticks
  /\ op.name = "endDrag" => state.moveState = "FREE" /\ state.floatTimer = FLOAT_DELAY

\* The tick that ends the cooldown of a body that was thrown: the 100th.
C24_Witness ==
  /\ op.name = "step" /\ pre.moveState = "FREE"
  /\ op.settled.moveState = "FLOATING"
  /\ ticks = 100
  /\ pre.floatTimer = MAX_DT

\* C25 as stated: a stepBlob call changes moveState only from Idle to
\* Walking, Walking to Idle, Free to Floating or Floating to Idle, and never
\* while Dragging; Dragging is entered only by startDrag and left only by
\* endDrag, to Free, or by the safety check, to Idle.
C25_StepChanges ==
  /\ (op.name = "step" /\ pre.moveState # state.moveState) =>
       <<pre.moveState, state.moveState>> \in
         {<<"IDLE", "WALKING">>, <<"WALKING", "IDLE">>,
          <<"FREE", "FLOATING">>, <<"FLOATING", "IDLE">>}
  /\ (state.moveState = "DRAGGING" /\ pre.moveState # "DRAGGING") => op.name = "startDrag"
  /\ (pre.moveState = "DRAGGING" /\ state.moveState # "DRAGGING") =>
       \/ op.name = "endDrag" /\ state.moveState = "FREE"
       \/ op.name = "safetyCheck" /\ state.moveState = "IDLE"

\* C25, amended: each assignment to moveState in stepBlob is one of the four
\* changes, the switch making at most one and the arrival check at the end
\* of the call at most one more; seen from one call to the next, a body can
\* so go from Free to Idle, through Floating.  Dragging as stated.
C25_ModeChanges ==
  /\ op.name = "step" =>
       LET changes == {<<"IDLE", "WALKING">>, <<"WALKING", "IDLE">>,
                       <<"FREE", "FLOATING">>, <<"FLOATING", "IDLE">>}
           inSwitch == <<pre.moveState, op.settled.moveState>>
           atArrival == <<op.settled.moveState, state.moveState>>
       IN  /\ inSwitch[1] = inSwitch[2] \/ inSwitch \in changes
           /\ atArrival[1] = atArrival[2] \/ atArrival = <<"FLOATING", "IDLE">>
           /\ pre.moveState = "DRAGGING" => state.moveState = "DRAGGING"
  /\ (state.moveState = "DRAGGING" /\ pre.moveState # "DRAGGING") => op.name = "startDrag"
  /\ (pre.moveState = "DRAGGING" /\ state.moveState # "DRAGGING") =>
       \/ op.name = "endDrag" /\ state.moveState = "FREE"
       \/ op.name = "safetyCheck" /\ state.moveState = "IDLE"

\* The call that takes a released body from Free through Floating to Idle:
\* its cooldown has run out beside the window, within 8 px of the target
\* the call computes.
C25_Witness ==
  /\ op.name = "step"
  /\ pre.moveState = "FREE"
  /\ op.settled.moveState = "FLOATING"
  /\ state.moveState = "IDLE"

\* C26: when constrainWindowWalls has gone through the whole window list,
\* no node lies strictly inside a window whose interior does not hold the
\* centroid, whatever the windows and their order.  (The node array after
\* the window passes of an iteration is the one the monitor pass starts
\* from.)
C26_OutsideEveryWindow ==
  op.name = "step" =>
    LET n == Len(state.windows)
    IN  \A j \in 1 .. CONSTRAINT_ITERS, k \in 1 .. n :
          LET pass == passes[(j - 1) * (n + 1) + k]
              final == passes[j * (n + 1)].before
          IN  pass.mode = "outside" =>
                \A i \in Idx : ~StrictlyInside(final[i].x, final[i].y, pass.rect)

\* The centroid of s is within the span of the edge of win that s walks
\* on, that is, neither corner test of applyWalkForces applies to it.
InSpan(s, win) ==
  IF s.walkEdge \in {"top", "bottom"}
  THEN s.cx >= win.x + s.radius /\ s.cx <= win.x + win.width - s.radius
  ELSE s.cy >= win.y + s.radius /\ s.cy <= win.y + win.height - s.radius

\* The last call was a corner transition of a walk: the body walked before
\* and after it, on different edges.
Turned ==
  /\ op.name = "step"
  /\ pre.moveState = "WALKING" /\ state.moveState = "WALKING"
  /\ pre.walkEdge # state.walkEdge

\* C27: around one fixed window, when a walking body has turned a corner
\* from edge E to edge E', the next stepBlob call does not turn it back to
\* E unless the centroid had entered the span of E' in between: walkEdge
\* does not flip between E and E' tick by tick.
C27_NoFlipFlop ==
  [][(/\ Turned
      /\ op'.name = "step" /\ pre' = state
      /\ state'.moveState = "WALKING"
      /\ state'.walkEdge = pre.walkEdge)
     => InSpan(state, nearestWindow(state))]_vars

\* C28: with monitors in the list, whatever frames, drags and window
\* snapshots have come, the cached centroid is within some monitor's bounds
\* grown by 200 px, so that the safety check keeps the body.
C28_CentroidNearMonitor ==
  inSomeMonitor(state.cx, state.cy, monitors)

\* C29: whenever the animation-frame callback runs there is a body,
\* whether get_monitors gave monitors, an empty list or failed.
C29_FrameHasBody ==
  op.name \in {"step", "frame"} => pre # NoBlob

\* The requests of the fetch so far, in order, without their answers.
Requests(log) == SelectSeq(log, LAMBDA e : e \in {"refresh", "usage"})

\* Position i of the log is the answer to the first usage request, and it
\* is a rejection.
FirstRejection(f, i) ==
  /\ i > 1 /\ f.log[i - 1] = "usage" /\ Rejected(f, f.log[i])
  /\ \A j \in 1 .. i - 2 : f.log[j] # "usage"

====
